---- MODULE Spec2Model ----
(***************************************************************************)
(* A model of the Intan RHS importer (src/src/reader.rs, src/src/lib.rs):  *)
(* the single-file decoder load_file and the multi-file combiner           *)
(* load_and_combine_files.                                                 *)
(*                                                                         *)
(* Representation.                                                         *)
(*  - Option<T> is a sequence of length 0 (None) or 1 (Some(x)).           *)
(*  - A Result is a record [tag |-> "Ok", val |-> v] or                    *)
(*    [tag |-> "Err", err |-> kind]; kind is the IntanError variant.       *)
(*  - A u32 is a record [hi, lo] of its two 16-bit halves (the value       *)
(*    hi * 65536 + lo), because TLC's integers are 32-bit signed.        *)
(*  - An ndarray matrix is represented by its shape <<rows, cols>>, the    *)
(*    timestamp array by its length.                                       *)
(*  - A channel list other than the amplifier list is represented by its   *)
(*    length; the amplifier list is the sequence of native channel names.  *)
(*  - A sample rate is an integer number of hundredths of a hertz.         *)
(***************************************************************************)
EXTENDS Integers, Sequences, FiniteSets, TLC

VARIABLES
    \* ---- load_file, one statement at a time (specification SpecLoad)
    file,          \* the file on disk: [magic, header, header_len, body_len]
    lpc,           \* position in load_file
    file_size,     \* file.metadata()?.len()
    reader_pos,    \* the reader's stream position
    header,        \* Option<RhsHeader>: the local `header`
    bytes_per_block, \* the local of calculate_data_size (0 before the call)
    data_size,     \* (data_present, num_blocks, num_samples)
    raw_data,      \* Option<RawData>
    data,          \* Option<RhsData>: the local `data`
    load_result,   \* Option<Result<RhsFile>>: what load_file returned
    \* ---- load_and_combine_files (specification Spec)
    file_paths,    \* the number of paths in the slice; path k is the integer k
    pc,            \* position in load_and_combine_files
    idx,           \* index (1-based) of the next path of the list to load
    combined_file, \* Option<RhsFile>: the local `combined_file`
    next_file,     \* Option<RhsFile>: the local `next_file`
    opened,        \* the paths handed to load_file so far, in order
    result         \* Option<Result<RhsFile>>, or the abnormal outcome "panic"

loadVars ==
    <<file, lpc, file_size, reader_pos, header, bytes_per_block, data_size, raw_data, data,
      load_result>>

combineVars == <<file_paths, pc, idx, combined_file, next_file, opened, result>>

VARIABLES
    \* ---- load and load_directory of lib.rs (specification SpecDir)
    path_kind,     \* what `path` is: "file", "dir" or "other" (e.g. non-existent)
    path_file,     \* the file behind `path` when it is a regular file
    entries,       \* the file names of the directory, in the order read_dir yields them
    rhs_files,     \* the local `rhs_files` of load_directory
    dpc,           \* position in load
    load_out       \* Option<Result<RhsFile>>: what load returned

dirVars == <<path_kind, path_file, entries, rhs_files, dpc, load_out>>

VARIABLES
    \* ---- the header's channel records and strings (specification SpecParse)
    records,       \* the channel records the stream was written from
    stream,        \* the bytes of the stream
    stream_pos,    \* the reader's position in the stream (bytes from its start)
    rec_idx,       \* the loop counter of add_signal_group_information (1-based)
    parsed,        \* the channel lists of the RhsHeader under construction
    ppc,           \* what is being read: "channels", "qstring", a step of
                   \* read_header, or "done" / "header_done"
    parse_result,  \* Option<Result<..>>: the outcome of the read
    fixed_fields   \* the fields of the RhsHeader read before the notes

parseVars ==
    <<records, stream, stream_pos, rec_idx, parsed, ppc, parse_result, fixed_fields>>

VARIABLES
    \* ---- the values of the samples (specification SpecSignal)
    sig_kind,      \* the signal read: "amplifier", "stim" or "digital"
    sample_bytes,  \* the 16-bit words of the block, each as its two bytes in file order
    raw_values,    \* Option: the i32 values in the raw array, one per word
    stim_step_size, \* header.stim_step_size, in halves of a unit
    dig_channels,  \* the native_order of each channel of the digital kind
    sig_out,       \* Option: the processed values
    sig_header,    \* the fields of the header the processing looks at
    block_idx      \* the loop counter i of read_all_data_blocks

sigVars ==
    <<sig_kind, sample_bytes, raw_values, stim_step_size, dig_channels, sig_out, sig_header,
      block_idx>>

\* the variables of the operations other than load_file and load_and_combine_files
auxVars == <<dirVars, parseVars, sigVars>>

\* the variables that load and load_directory leave alone, besides those above
notDirVars == <<parseVars, sigVars>>

\* the variables that the reading of the header leaves alone, besides those above
notParseVars == <<dirVars, sigVars>>

\* the variables that the processing of samples leaves alone
notSigVars == <<loadVars, combineVars, dirVars, parseVars>>

vars == <<loadVars, combineVars, auxVars>>

-----------------------------------------------------------------------------
(* Bounds of the model *)

\* most enabled channels (of all kinds together) in one header
MaxChannels == 2

\* most data blocks in a file offered to the combiner
MaxBlocks == 1

\* most paths in a list given to load_and_combine_files whose files are any of
\* those offered (a list of one more path is given with the files that have no
\* channel)
MaxFiles == 2

\* the body lengths offered to load_file are 256 * k + r, k in 0..MaxBodyUnits
MaxBodyUnits == 8

\* most enabled channels in a header of a file offered to the combiner
MaxCombinedChannels == 1

-----------------------------------------------------------------------------
(* Constants of the program *)

SAMPLES_PER_DATA_BLOCK == 128

\* 0xd69127ac
RHS_MAGIC_NUMBER == [hi |-> 54929, lo |-> 10156]

\* the 0.01 Hz of verify_header_compatibility, in hundredths of a hertz
RATE_TOLERANCE == 1

-----------------------------------------------------------------------------
(* Option and Result *)

None == <<>>

Some(x) == <<x>>

IsSome(o) == Len(o) = 1

IsNone(o) == Len(o) = 0

Unwrap(o) == o[1]

Ok(v) == [tag |-> "Ok", val |-> v]

Err(e) == [tag |-> "Err", err |-> e]

IsOk(r) == r.tag = "Ok"

IsErr(r) == r.tag = "Err"

Abs(x) == IF x < 0 THEN -x ELSE x

-----------------------------------------------------------------------------
(* The inputs: files on disk *)

\* the four magic bytes of a well-formed file, in file order
GoodMagic == <<172, 39, 145, 214>>

\* byte values tried in place of a magic byte
TestBytes == {0, 39, 172, 173, 214, 255}

\* the well-formed magic, every one-byte alteration of it by a TestByte,
\* and the magic number written big-endian
MagicInputs ==
    {GoodMagic}
        \cup {[GoodMagic EXCEPT ![i] = b] : i \in 1..4, b \in TestBytes}
        \cup {<<214, 145, 39, 172>>}

NativeNames == {"A-000", "A-001"}

SampleRates == {3000000, 3000001, 3000002}

\* the number of enabled channels of a header
TotalChannels(h) ==
    Len(h.amplifier_channels) + h.board_adc_channels + h.board_dac_channels
        + h.board_dig_in_channels + h.board_dig_out_channels

\* every header with at most n enabled channels
HeadersUpTo(n) ==
    {h \in [sample_rate : SampleRates,
            amplifier_channels : UNION {[1..k -> NativeNames] : k \in 0..n},
            board_adc_channels : 0..n,
            board_dac_channels : 0..n,
            board_dig_in_channels : 0..n,
            board_dig_out_channels : 0..n,
            dc_amplifier_data_saved : BOOLEAN] :
        TotalChannels(h) <= n}

Headers == HeadersUpTo(MaxChannels)

\* a header with two DAC channels and no other
TwoDacHeader ==
    [sample_rate |-> 3000000, amplifier_channels |-> <<>>, board_adc_channels |-> 0,
     board_dac_channels |-> 2, board_dig_in_channels |-> 0, board_dig_out_channels |-> 0,
     dc_amplifier_data_saved |-> FALSE]

\* the headers of the files offered to the combiner; the DC flag is left clear
\* where there is no amplifier channel for it to act on, and a sample rate
\* other than the first comes with at most one channel (the rates and the
\* channel lists are compared separately); and the header with two DAC channels
CombineHeaders ==
    {h \in HeadersUpTo(MaxCombinedChannels) :
        /\ h.dc_amplifier_data_saved => Len(h.amplifier_channels) > 0
        /\ h.sample_rate # 3000000 => TotalChannels(h) <= 1}
    \cup {TwoDacHeader}

\* header lengths in bytes (the notes make any even length possible)
HeaderLens == {400, 1024}

BodyLens == {256 * k + r : k \in 0..MaxBodyUnits, r \in {0, 1}}

MkFile(m, h, hl, bl) == [magic |-> m, header |-> h, header_len |-> hl, body_len |-> bl]

BaseHeader ==
    [sample_rate |-> 3000000, amplifier_channels |-> <<>>, board_adc_channels |-> 0,
     board_dac_channels |-> 0, board_dig_in_channels |-> 0, board_dig_out_channels |-> 0,
     dc_amplifier_data_saved |-> FALSE]

\* the files offered to load_file alone: every header with every body length,
\* and every magic with one header and body
LoadFiles ==
    {MkFile(GoodMagic, h, hl, bl) : h \in Headers, hl \in HeaderLens, bl \in BodyLens}
        \cup {MkFile(m, BaseHeader, 400, 512) : m \in MagicInputs}

-----------------------------------------------------------------------------
(* read_header *)

\* read_u32_le with the bytes taken most significant first
read_u32_be(bytes) == [hi |-> 256 * bytes[1] + bytes[2], lo |-> 256 * bytes[3] + bytes[4]]

\* reader.read_u32::<LittleEndian>() on four bytes given in file order
read_u32_le(bytes) == [hi |-> bytes[3] + 256 * bytes[4], lo |-> bytes[1] + 256 * bytes[2]]

check_magic_number(f) ==
    LET magic_number == read_u32_le(f.magic)
    IN  IF magic_number # RHS_MAGIC_NUMBER
        THEN Err("UnrecognizedFileFormat")
        ELSE Ok(TRUE)

\* The magic number is checked first; the fields read after it are given by the
\* file's header record, and the reader ends header_len bytes into the stream.
read_header(f) ==
    IF IsErr(check_magic_number(f))
    THEN Err("UnrecognizedFileFormat")
    ELSE Ok(f.header)

-----------------------------------------------------------------------------
(* calculate_data_size *)

bytes_per_signal_type(num_samples, num_channels, bytes_per_sample) ==
    num_samples * num_channels * bytes_per_sample

\* get_bytes_per_data_block without the stimulation words
get_bytes_per_data_block_no_stim(h) ==
    LET num_samples_per_data_block == 128
        amps == Len(h.amplifier_channels)
    IN  bytes_per_signal_type(num_samples_per_data_block, 1, 4)
        + bytes_per_signal_type(num_samples_per_data_block, amps, 2)
        + (IF h.dc_amplifier_data_saved
           THEN bytes_per_signal_type(num_samples_per_data_block, amps, 2)
           ELSE 0)
        + bytes_per_signal_type(num_samples_per_data_block, h.board_adc_channels, 2)
        + bytes_per_signal_type(num_samples_per_data_block, h.board_dac_channels, 2)
        + (IF h.board_dig_in_channels # 0
           THEN bytes_per_signal_type(num_samples_per_data_block, 1, 2)
           ELSE 0)
        + (IF h.board_dig_out_channels # 0
           THEN bytes_per_signal_type(num_samples_per_data_block, 1, 2)
           ELSE 0)

get_bytes_per_data_block(h) ==
    LET num_samples_per_data_block == 128
        amps == Len(h.amplifier_channels)
    IN  bytes_per_signal_type(num_samples_per_data_block, 1, 4)
        + bytes_per_signal_type(num_samples_per_data_block, amps, 2)
        + (IF h.dc_amplifier_data_saved
           THEN bytes_per_signal_type(num_samples_per_data_block, amps, 2)
           ELSE 0)
        + bytes_per_signal_type(num_samples_per_data_block, amps, 2)
        + bytes_per_signal_type(num_samples_per_data_block, h.board_adc_channels, 2)
        + bytes_per_signal_type(num_samples_per_data_block, h.board_dac_channels, 2)
        + (IF h.board_dig_in_channels # 0
           THEN bytes_per_signal_type(num_samples_per_data_block, 1, 2)
           ELSE 0)
        + (IF h.board_dig_out_channels # 0
           THEN bytes_per_signal_type(num_samples_per_data_block, 1, 2)
           ELSE 0)

\* calculate_data_size without the test of the remainder
calculate_data_size_unchecked(h, fsize, current_position) ==
    LET bytes_per_block_ == get_bytes_per_data_block(h)
        bytes_remaining == fsize - current_position
        data_present == bytes_remaining > 0
        num_blocks == bytes_remaining \div bytes_per_block_
        num_samples == num_blocks * SAMPLES_PER_DATA_BLOCK
    IN  Ok(<<data_present, num_blocks, num_samples>>)

\* calculate_data_size counting blocks where it should count samples
calculate_data_size_blocks(h, fsize, current_position) ==
    LET bytes_per_block_ == get_bytes_per_data_block(h)
        bytes_remaining == fsize - current_position
        data_present == bytes_remaining > 0
        num_blocks == bytes_remaining \div bytes_per_block_
    IN  IF bytes_remaining % bytes_per_block_ # 0
        THEN Err("FileSizeError")
        ELSE Ok(<<data_present, num_blocks, num_blocks>>)

\* calculate_data_size reporting data whatever remains after the header
calculate_data_size_always_present(h, fsize, current_position) ==
    LET bytes_per_block_ == get_bytes_per_data_block(h)
        bytes_remaining == fsize - current_position
        num_blocks == bytes_remaining \div bytes_per_block_
        num_samples == num_blocks * SAMPLES_PER_DATA_BLOCK
    IN  IF bytes_remaining % bytes_per_block_ # 0
        THEN Err("FileSizeError")
        ELSE Ok(<<TRUE, num_blocks, num_samples>>)

\* Ok(<<data_present, num_blocks, num_samples>>) or Err(FileSizeError)
calculate_data_size(h, fsize, current_position) ==
    LET bytes_per_block_ == get_bytes_per_data_block(h)
        bytes_remaining == fsize - current_position
        data_present == bytes_remaining > 0
        num_blocks == bytes_remaining \div bytes_per_block_
        num_samples == num_blocks * SAMPLES_PER_DATA_BLOCK
    IN  IF bytes_remaining % bytes_per_block_ # 0
        THEN Err("FileSizeError")
        ELSE Ok(<<data_present, num_blocks, num_samples>>)

-----------------------------------------------------------------------------
(* read_all_data_blocks *)

\* alloc_raw_data allocating the DC matrix whatever the saved flag says
alloc_raw_data_dc_always(h, num_samples) ==
    LET amps == Len(h.amplifier_channels)
    IN  [timestamps |-> num_samples,
         amplifier_data_raw |-> IF amps # 0 THEN Some(<<amps, num_samples>>) ELSE None,
         dc_amplifier_data_raw |->
             IF amps # 0
             THEN Some(<<amps, num_samples>>) ELSE None,
         stim_data_raw |-> IF amps # 0 THEN Some(<<amps, num_samples>>) ELSE None,
         board_adc_data_raw |->
             IF h.board_adc_channels # 0
             THEN Some(<<h.board_adc_channels, num_samples>>) ELSE None,
         board_dac_data_raw |->
             IF h.board_dac_channels # 0
             THEN Some(<<h.board_dac_channels, num_samples>>) ELSE None,
         board_dig_in_raw |->
             IF h.board_dig_in_channels # 0
             THEN Some(<<h.board_dig_in_channels, num_samples>>) ELSE None,
         board_dig_out_raw |->
             IF h.board_dig_out_channels # 0
             THEN Some(<<h.board_dig_out_channels, num_samples>>) ELSE None]

\* the RawData allocated at the start of read_all_data_blocks
alloc_raw_data(h, num_samples) ==
    LET amps == Len(h.amplifier_channels)
    IN  [timestamps |-> num_samples,
         amplifier_data_raw |-> IF amps # 0 THEN Some(<<amps, num_samples>>) ELSE None,
         dc_amplifier_data_raw |->
             IF amps # 0 /\ h.dc_amplifier_data_saved
             THEN Some(<<amps, num_samples>>) ELSE None,
         stim_data_raw |-> IF amps # 0 THEN Some(<<amps, num_samples>>) ELSE None,
         board_adc_data_raw |->
             IF h.board_adc_channels # 0
             THEN Some(<<h.board_adc_channels, num_samples>>) ELSE None,
         board_dac_data_raw |->
             IF h.board_dac_channels # 0
             THEN Some(<<h.board_dac_channels, num_samples>>) ELSE None,
         board_dig_in_raw |->
             IF h.board_dig_in_channels # 0
             THEN Some(<<h.board_dig_in_channels, num_samples>>) ELSE None,
         board_dig_out_raw |->
             IF h.board_dig_out_channels # 0
             THEN Some(<<h.board_dig_out_channels, num_samples>>) ELSE None]

\* bytes read_analog_signal_type takes from the reader
read_analog_signal_type(num_samples, num_channels) ==
    IF num_channels < 1 THEN 0 ELSE num_samples * num_channels * 2

\* bytes read_digital_signal_type takes when it reads a word for every row
read_digital_signal_type_per_row(dest, num_samples) ==
    IF IsSome(dest) /\ Unwrap(dest)[1] >= 1 THEN num_samples * 2 * Unwrap(dest)[1] ELSE 0

\* bytes read_digital_signal_type takes from the reader
read_digital_signal_type(dest, num_samples) ==
    IF IsSome(dest) /\ Unwrap(dest)[1] >= 1 THEN num_samples * 2 ELSE 0

\* one read_exact on the reader: the field it fills and the bytes it takes
\* (no read_exact is made where the call returns before reading)
read_exact(field, bytes) ==
    IF bytes > 0 THEN <<[field |-> field, bytes |-> bytes]>> ELSE <<>>

\* the read_exact calls of read_one_data_block, in the order they are made:
\* read_timestamps, read_analog_signals and read_digital_signals
block_reads(raw, h) ==
    LET samples_per_block == SAMPLES_PER_DATA_BLOCK
        amps == Len(h.amplifier_channels)
    IN  read_exact("timestamps", samples_per_block * 4)
        \o (IF amps > 0 /\ IsSome(raw.amplifier_data_raw)
            THEN read_exact("amplifier", read_analog_signal_type(samples_per_block, amps))
            ELSE <<>>)
        \o (IF amps > 0 /\ h.dc_amplifier_data_saved /\ IsSome(raw.dc_amplifier_data_raw)
            THEN read_exact("dc_amplifier", read_analog_signal_type(samples_per_block, amps))
            ELSE <<>>)
        \o (IF amps > 0 /\ IsSome(raw.stim_data_raw)
            THEN read_exact("stim", read_analog_signal_type(samples_per_block, amps))
            ELSE <<>>)
        \o (IF h.board_adc_channels > 0 /\ IsSome(raw.board_adc_data_raw)
            THEN read_exact("board_adc",
                            read_analog_signal_type(samples_per_block, h.board_adc_channels))
            ELSE <<>>)
        \o (IF h.board_dac_channels > 0 /\ IsSome(raw.board_dac_data_raw)
            THEN read_exact("board_dac",
                            read_analog_signal_type(samples_per_block, h.board_dac_channels))
            ELSE <<>>)
        \o (IF h.board_dig_in_channels > 0
            THEN read_exact("board_dig_in",
                            read_digital_signal_type(raw.board_dig_in_raw, samples_per_block))
            ELSE <<>>)
        \o (IF h.board_dig_out_channels > 0
            THEN read_exact("board_dig_out",
                            read_digital_signal_type(raw.board_dig_out_raw, samples_per_block))
            ELSE <<>>)

RECURSIVE bytes_read(_)
\* the bytes a sequence of read_exact calls takes from the reader
bytes_read(reads) ==
    IF reads = <<>> THEN 0 ELSE reads[1].bytes + bytes_read(Tail(reads))

\* bytes read_one_data_block takes from the reader
read_one_data_block(raw, h) == bytes_read(block_reads(raw, h))

\* Ok([raw_data, pos]) with the reader's position after the last block, or
\* Err(IoError) when a read_exact runs past the end of the file
read_all_data_blocks(h, num_samples, num_blocks, pos, fsize) ==
    LET raw == alloc_raw_data(h, num_samples)
        after == pos + num_blocks * read_one_data_block(raw, h)
    IN  IF after > fsize
        THEN Err("IoError")
        ELSE Ok([raw_data |-> raw, pos |-> after])

check_end_of_file(fsize, current_position) ==
    LET bytes_remaining == fsize - current_position
    IN  IF bytes_remaining # 0 THEN Err("FileSizeError") ELSE Ok(TRUE)

-----------------------------------------------------------------------------
(* process_data *)

\* extract_digital_data: one row per channel of the list, the raw columns
extract_digital_data(digital_data_raw, channels) == <<channels, digital_data_raw[2]>>

\* The scaling functions map a matrix element by element, extract_stim_data
\* builds four matrices of the raw shape, and apply_notch_filter rewrites the
\* amplifier matrix in place: shapes are kept.
process_data(h, raw) ==
    [timestamps |-> raw.timestamps,
     amplifier_data |->
         IF IsSome(raw.amplifier_data_raw) THEN Some(Unwrap(raw.amplifier_data_raw)) ELSE None,
     dc_amplifier_data |->
         IF IsSome(raw.dc_amplifier_data_raw)
         THEN Some(Unwrap(raw.dc_amplifier_data_raw)) ELSE None,
     stim_data |-> IF IsSome(raw.stim_data_raw) THEN Some(Unwrap(raw.stim_data_raw)) ELSE None,
     compliance_limit_data |->
         IF IsSome(raw.stim_data_raw) THEN Some(Unwrap(raw.stim_data_raw)) ELSE None,
     charge_recovery_data |->
         IF IsSome(raw.stim_data_raw) THEN Some(Unwrap(raw.stim_data_raw)) ELSE None,
     amp_settle_data |->
         IF IsSome(raw.stim_data_raw) THEN Some(Unwrap(raw.stim_data_raw)) ELSE None,
     board_adc_data |->
         IF IsSome(raw.board_adc_data_raw) THEN Some(Unwrap(raw.board_adc_data_raw)) ELSE None,
     board_dac_data |->
         IF IsSome(raw.board_dac_data_raw) THEN Some(Unwrap(raw.board_dac_data_raw)) ELSE None,
     board_dig_in_data |->
         IF IsSome(raw.board_dig_in_raw)
         THEN Some(extract_digital_data(Unwrap(raw.board_dig_in_raw), h.board_dig_in_channels))
         ELSE None,
     board_dig_out_data |->
         IF IsSome(raw.board_dig_out_raw)
         THEN Some(extract_digital_data(Unwrap(raw.board_dig_out_raw), h.board_dig_out_channels))
         ELSE None]

\* the RhsFile built at the end of load_file
RhsFile(h, d, present) ==
    [header |-> h, data |-> d, data_present |-> present, source_files |-> None]

-----------------------------------------------------------------------------
(* The variables of an operation that is not running *)

DirIdle ==
    /\ path_kind = "other"
    /\ path_file = <<>>
    /\ entries = <<>>
    /\ rhs_files = <<>>
    /\ dpc = "idle"
    /\ load_out = <<>>

\* the channel lists of a header before any channel record is read
NoChannels ==
    [amplifier_channels |-> <<>>, spike_triggers |-> <<>>, board_adc_channels |-> <<>>,
     board_dac_channels |-> <<>>, board_dig_in_channels |-> <<>>,
     board_dig_out_channels |-> <<>>]

\* a 32-bit float of the header, kept as its bit pattern; 0.0 is all bits clear
ZeroF32 == [hi |-> 0, lo |-> 0]

\* the fields of the header that read_header creates with default values and
\* reads before the notes
DefaultFields ==
    [version |-> [major |-> 0, minor |-> 0],
     sample_rate |-> ZeroF32,
     dsp_enabled |-> 0,
     actual_dsp_cutoff_frequency |-> ZeroF32,
     actual_lower_bandwidth |-> ZeroF32,
     actual_lower_settle_bandwidth |-> ZeroF32,
     actual_upper_bandwidth |-> ZeroF32,
     desired_dsp_cutoff_frequency |-> ZeroF32,
     desired_lower_bandwidth |-> ZeroF32,
     desired_lower_settle_bandwidth |-> ZeroF32,
     desired_upper_bandwidth |-> ZeroF32,
     notch_filter_frequency |-> None]

ParseIdle ==
    /\ records = <<>>
    /\ stream = <<>>
    /\ stream_pos = 0
    /\ rec_idx = 0
    /\ parsed = NoChannels
    /\ ppc = "idle"
    /\ parse_result = <<>>
    /\ fixed_fields = DefaultFields

\* the header fields of a signal whose processing looks at none of them
NoSigHeader ==
    [version |-> [major |-> 0, minor |-> 0], sample_rate |-> 0,
     notch_filter_frequency |-> None, num_channels |-> 0]

SigIdle ==
    /\ sig_kind = "idle"
    /\ sample_bytes = <<>>
    /\ raw_values = <<>>
    /\ stim_step_size = 2
    /\ dig_channels = <<>>
    /\ sig_out = <<>>
    /\ sig_header = NoSigHeader
    /\ block_idx = 0

AuxIdle == DirIdle /\ ParseIdle /\ SigIdle

-----------------------------------------------------------------------------
(* load_file, one statement at a time *)

NoSize == <<FALSE, 0, 0>>

LoadInit ==
    /\ file \in LoadFiles
    /\ lpc = "open"
    /\ file_size = 0
    /\ reader_pos = 0
    /\ header = None
    /\ bytes_per_block = 0
    /\ data_size = NoSize
    /\ raw_data = None
    /\ data = None
    /\ load_result = None

\* File::open, file.metadata()?.len(), BufReader::with_capacity
OpenFile ==
    /\ lpc = "open"
    /\ file_size' = file.header_len + file.body_len
    /\ lpc' = "read_header"
    /\ UNCHANGED <<file, reader_pos, header, data_size, raw_data, data, load_result, bytes_per_block,
                 combineVars, auxVars>>

\* let header = read_header(&mut reader)?;
ReadHeader ==
    /\ lpc = "read_header"
    /\ LET r == read_header(file)
       IN  IF IsErr(r)
           THEN /\ load_result' = Some(r)
                /\ lpc' = "done"
                /\ UNCHANGED <<header, reader_pos>>
           ELSE /\ header' = Some(r.val)
                /\ reader_pos' = file.header_len
                /\ lpc' = "calculate_data_size"
                /\ UNCHANGED load_result
    /\ UNCHANGED <<file, file_size, data_size, raw_data, data, bytes_per_block,
                 combineVars, auxVars>>

\* let (data_present, num_blocks, num_samples) = calculate_data_size(..)?;
CalculateDataSize ==
    /\ lpc = "calculate_data_size"
    /\ bytes_per_block' = get_bytes_per_data_block(Unwrap(header))
    /\ LET r == calculate_data_size(Unwrap(header), file_size, reader_pos)
       IN  IF IsErr(r)
           THEN /\ load_result' = Some(r)
                /\ lpc' = "done"
                /\ UNCHANGED data_size
           ELSE /\ data_size' = r.val
                /\ lpc' = IF r.val[1] THEN "read_all_data_blocks" ELSE "return"
                /\ UNCHANGED load_result
    /\ UNCHANGED <<file, file_size, reader_pos, header, raw_data, data,
                 combineVars, auxVars>>

\* let data = read_all_data_blocks(&header, num_samples, num_blocks, &mut reader)?;
ReadAllDataBlocks ==
    /\ lpc = "read_all_data_blocks"
    /\ LET r == read_all_data_blocks(Unwrap(header), data_size[3], data_size[2],
                                     reader_pos, file_size)
       IN  IF IsErr(r)
           THEN /\ load_result' = Some(r)
                /\ lpc' = "done"
                /\ UNCHANGED <<raw_data, reader_pos>>
           ELSE /\ raw_data' = Some(r.val.raw_data)
                /\ reader_pos' = r.val.pos
                /\ lpc' = "check_end_of_file"
                /\ UNCHANGED load_result
    /\ UNCHANGED <<file, file_size, header, data_size, data, bytes_per_block,
                 combineVars, auxVars>>

\* check_end_of_file(file_size, &mut reader)?;
CheckEndOfFile ==
    /\ lpc = "check_end_of_file"
    /\ LET r == check_end_of_file(file_size, reader_pos)
       IN  IF IsErr(r)
           THEN /\ load_result' = Some(r)
                /\ lpc' = "done"
           ELSE /\ lpc' = "process_data"
                /\ UNCHANGED load_result
    /\ UNCHANGED <<file, file_size, reader_pos, header, data_size, raw_data, data, bytes_per_block,
                 combineVars, auxVars>>

\* let data = process_data(&header, data)?; Some(data)
ProcessData ==
    /\ lpc = "process_data"
    /\ data' = Some(process_data(Unwrap(header), Unwrap(raw_data)))
    /\ lpc' = "return"
    /\ UNCHANGED <<file, file_size, reader_pos, header, data_size, raw_data, load_result, bytes_per_block,
                 combineVars, auxVars>>

\* Ok(RhsFile { header, data, data_present, source_files: None })
ReturnFile ==
    /\ lpc = "return"
    /\ load_result' = Some(Ok(RhsFile(Unwrap(header), data, data_size[1])))
    /\ lpc' = "done"
    /\ UNCHANGED <<file, file_size, reader_pos, header, data_size, raw_data, data, bytes_per_block,
                 combineVars, auxVars>>

CombineIdle ==
    /\ file_paths = 0
    /\ pc = "idle"
    /\ idx = 0
    /\ combined_file = None
    /\ next_file = None
    /\ opened = <<>>
    /\ result = None

InitLoad == LoadInit /\ CombineIdle /\ AuxIdle

NextLoad ==
    \/ OpenFile
    \/ ReadHeader
    \/ CalculateDataSize
    \/ ReadAllDataBlocks
    \/ CheckEndOfFile
    \/ ProcessData
    \/ ReturnFile

SpecLoad == InitLoad /\ [][NextLoad]_vars

-----------------------------------------------------------------------------
(* load_file as one call *)

load_file(f) ==
    LET fsize == f.header_len + f.body_len
        hr == read_header(f)
    IN  IF IsErr(hr) THEN hr
        ELSE
        LET h == hr.val
            sr == calculate_data_size(h, fsize, f.header_len)
        IN  IF IsErr(sr) THEN sr
            ELSE IF ~sr.val[1] THEN Ok(RhsFile(h, None, FALSE))
            ELSE
            LET br == read_all_data_blocks(h, sr.val[3], sr.val[2], f.header_len, fsize)
            IN  IF IsErr(br) THEN br
                ELSE
                LET er == check_end_of_file(fsize, br.val.pos)
                IN  IF IsErr(er) THEN er
                    ELSE Ok(RhsFile(h, Some(process_data(h, br.val.raw_data)), TRUE))

\* RhsFile::num_samples
num_samples(rhs) == IF IsSome(rhs.data) THEN Unwrap(rhs.data).timestamps ELSE 0

\* RhsFile::duration, in seconds, as the fraction num / den: the sample count
\* over the sample rate (the rate is kept in hundredths of a hertz)
duration(rhs) ==
    IF IsSome(rhs.data)
    THEN LET n == Unwrap(rhs.data).timestamps
         IN  [num |-> n * 100, den |-> rhs.header.sample_rate]
    ELSE [num |-> 0, den |-> 1]

-----------------------------------------------------------------------------
(* verify_header_compatibility and combine_data *)

\* verify_header_compatibility without the test of the digital input count
verify_header_compatibility_no_dig_in(header1, header2) ==
    IF Abs(header1.sample_rate - header2.sample_rate) > RATE_TOLERANCE
    THEN Err("Other: Sample rates don't match")
    ELSE IF Len(header1.amplifier_channels) # Len(header2.amplifier_channels)
    THEN Err("Other: Number of amplifier channels don't match")
    ELSE IF header1.board_adc_channels # header2.board_adc_channels
    THEN Err("Other: Number of board ADC channels don't match")
    ELSE IF \E i \in 1..Len(header1.amplifier_channels) :
                header1.amplifier_channels[i] # header2.amplifier_channels[i]
    THEN Err("Other: Amplifier channel names don't match")
    ELSE Ok(TRUE)

verify_header_compatibility(header1, header2) ==
    IF Abs(header1.sample_rate - header2.sample_rate) > RATE_TOLERANCE
    THEN Err("Other: Sample rates don't match")
    ELSE IF Len(header1.amplifier_channels) # Len(header2.amplifier_channels)
    THEN Err("Other: Number of amplifier channels don't match")
    ELSE IF header1.board_adc_channels # header2.board_adc_channels
    THEN Err("Other: Number of board ADC channels don't match")
    ELSE IF header1.board_dig_in_channels # header2.board_dig_in_channels
    THEN Err("Other: Number of digital input channels don't match")
    ELSE IF \E i \in 1..Len(header1.amplifier_channels) :
                header1.amplifier_channels[i] # header2.amplifier_channels[i]
    THEN Err("Other: Amplifier channel names don't match")
    ELSE Ok(TRUE)

\* the matrix kinds of RhsData
MatrixKinds ==
    {"amplifier_data", "dc_amplifier_data", "stim_data", "compliance_limit_data",
     "charge_recovery_data", "amp_settle_data", "board_adc_data", "board_dac_data",
     "board_dig_in_data", "board_dig_out_data"}

\* concatenate![Axis(1), a, b] of two matrices: ndarray refuses matrices whose
\* row counts differ and the macro unwraps the refusal
concatenate_fails(a, b) == a[1] # b[1]

concatenate_axis1(a, b) == <<a[1], a[2] + b[2]>>

\* if let (Some(c), Some(n)) = (&mut combined_data.kind, next_data.kind) { *c = concatenate!.. }
combine_kind(c, n) ==
    IF IsSome(c) /\ IsSome(n) THEN Some(concatenate_axis1(Unwrap(c), Unwrap(n))) ELSE c

combine_data_panics(combined, next) ==
    /\ IsSome(combined.data)
    /\ IsSome(next.data)
    /\ \E k \in MatrixKinds :
            /\ IsSome(Unwrap(combined.data)[k])
            /\ IsSome(Unwrap(next.data)[k])
            /\ concatenate_fails(Unwrap(Unwrap(combined.data)[k]), Unwrap(Unwrap(next.data)[k]))

\* combine_data taking the header of the file it appends
combine_data_next_header(combined, next) ==
    IF IsSome(combined.data) /\ IsSome(next.data)
    THEN LET cd == Unwrap(combined.data)
             nd == Unwrap(next.data)
             joined ==
                 [k \in DOMAIN cd |->
                     IF k = "timestamps"
                     THEN cd.timestamps + nd.timestamps
                     ELSE combine_kind(cd[k], nd[k])]
         IN  [combined EXCEPT !.data = Some(joined), !.header = next.header]
    ELSE combined

\* the combined RhsFile after combine_data(&mut combined, next) returned
combine_data(combined, next) ==
    IF IsSome(combined.data) /\ IsSome(next.data)
    THEN LET cd == Unwrap(combined.data)
             nd == Unwrap(next.data)
             joined ==
                 [k \in DOMAIN cd |->
                     IF k = "timestamps"
                     THEN cd.timestamps + nd.timestamps
                     ELSE combine_kind(cd[k], nd[k])]
         IN  [combined EXCEPT !.data = Some(joined)]
    ELSE combined

-----------------------------------------------------------------------------
(* load_and_combine_files, one statement at a time *)

\* the files the combiner may find behind a path: every header with 0..MaxBlocks
\* whole blocks, a file with a wrong magic number and a file with a stray byte
CombineFiles ==
    {MkFile(GoodMagic, h, 400, b * get_bytes_per_data_block(h)) :
        h \in CombineHeaders, b \in 0..MaxBlocks}
        \cup {MkFile(<<0, 39, 145, 214>>, BaseHeader, 400, 512),
              MkFile(GoodMagic, BaseHeader, 400, 513)}

\* the files the first path may name: those of the base sample rate (the
\* compatibility check reads only the difference of two rates)
FirstFiles == {f \in CombineFiles : f.header.sample_rate = BaseHeader.sample_rate}

\* the files behind the paths of a list of n paths: any of them for a list of
\* up to MaxFiles paths, those without a channel for a longer list
FilesOfList(n) ==
    IF n <= MaxFiles THEN CombineFiles
    ELSE {f \in CombineFiles : TotalChannels(f.header) = 0}

Panic == [tag |-> "Panic"]

CombineInit ==
    /\ file_paths \in 0..(MaxFiles + 1)
    /\ pc = "start"
    /\ idx = 1
    /\ combined_file = None
    /\ next_file = None
    /\ opened = <<>>
    /\ result = None

\* if file_paths.is_empty() { return Err(..) }
NoFiles ==
    /\ pc = "start"
    /\ file_paths = 0
    /\ result' = Some(Err("Other: No files to load"))
    /\ pc' = "done"
    /\ UNCHANGED <<file_paths, idx, combined_file, next_file, opened, loadVars, auxVars>>

\* LoadFirstFile recording the source list before the early return for a list
\* of one
LoadFirstFile_sources_first(f) ==
    /\ pc = "start"
    /\ file_paths >= 1
    /\ opened' = Append(opened, 1)
    /\ LET r == load_file(f)
       IN  IF IsErr(r)
           THEN /\ result' = Some(r)
                /\ pc' = "done"
                /\ UNCHANGED <<combined_file, idx>>
           ELSE IF file_paths = 1
           THEN /\ combined_file' = Some([r.val EXCEPT !.source_files = Some(<<1>>)])
                /\ result' = Some(Ok([r.val EXCEPT !.source_files = Some(<<1>>)]))
                /\ pc' = "done"
                /\ UNCHANGED idx
           ELSE /\ combined_file' = Some([r.val EXCEPT !.source_files = Some(<<1>>)])
                /\ idx' = 2
                /\ pc' = "loop"
                /\ UNCHANGED result
    /\ UNCHANGED <<file_paths, next_file, loadVars, auxVars>>

\* let mut combined_file = load_file(&file_paths[0])?; the early return for a
\* list of one; combined_file.source_files = Some(vec![file_paths[0]])
LoadFirstFile(f) ==
    /\ pc = "start"
    /\ file_paths >= 1
    /\ opened' = Append(opened, 1)
    /\ LET r == load_file(f)
       IN  IF IsErr(r)
           THEN /\ result' = Some(r)
                /\ pc' = "done"
                /\ UNCHANGED <<combined_file, idx>>
           ELSE IF file_paths = 1
           THEN /\ combined_file' = Some(r.val)
                /\ result' = Some(Ok(r.val))
                /\ pc' = "done"
                /\ UNCHANGED idx
           ELSE /\ combined_file' = Some([r.val EXCEPT !.source_files = Some(<<1>>)])
                /\ idx' = 2
                /\ pc' = "loop"
                /\ UNCHANGED result
    /\ UNCHANGED <<file_paths, next_file, loadVars, auxVars>>

\* LoadNextFile going on to the next path when a file fails to load
LoadNextFile_skip(f) ==
    /\ pc = "loop"
    /\ idx <= file_paths
    /\ opened' = Append(opened, idx)
    /\ LET r == load_file(f)
       IN  IF IsErr(r)
           THEN /\ idx' = idx + 1
                /\ UNCHANGED <<next_file, pc>>
           ELSE /\ next_file' = Some(r.val)
                /\ pc' = "verify"
                /\ UNCHANGED idx
    /\ UNCHANGED <<file_paths, combined_file, result, loadVars, auxVars>>

\* the loop head and let next_file = load_file(file_path)?;
LoadNextFile(f) ==
    /\ pc = "loop"
    /\ idx <= file_paths
    /\ opened' = Append(opened, idx)
    /\ LET r == load_file(f)
       IN  IF IsErr(r)
           THEN /\ result' = Some(r)
                /\ pc' = "done"
                /\ UNCHANGED next_file
           ELSE /\ next_file' = Some(r.val)
                /\ pc' = "verify"
                /\ UNCHANGED result
    /\ UNCHANGED <<file_paths, idx, combined_file, loadVars, auxVars>>

\* verify_header_compatibility(&combined_file.header, &next_file.header)?;
VerifyHeaders ==
    /\ pc = "verify"
    /\ LET r == verify_header_compatibility(Unwrap(combined_file).header,
                                            Unwrap(next_file).header)
       IN  IF IsErr(r)
           THEN /\ result' = Some(r)
                /\ pc' = "done"
           ELSE /\ pc' = "combine"
                /\ UNCHANGED result
    /\ UNCHANGED <<file_paths, idx, combined_file, next_file, opened, loadVars, auxVars>>

\* if combined_file.data_present && next_file.data_present { combine_data(..)?; }
\* and sources.push(file_path)
CombineData ==
    /\ pc = "combine"
    /\ LET c == Unwrap(combined_file)
           n == Unwrap(next_file)
           both == c.data_present /\ n.data_present
       IN  IF both /\ combine_data_panics(c, n)
           THEN /\ result' = Some(Panic)
                /\ pc' = "done"
                /\ UNCHANGED <<combined_file, next_file, idx>>
           ELSE /\ LET joined == IF both THEN combine_data(c, n) ELSE c
                   IN  combined_file' =
                           Some([joined EXCEPT !.source_files =
                                    IF IsSome(joined.source_files)
                                    THEN Some(Append(Unwrap(joined.source_files), idx))
                                    ELSE joined.source_files])
                /\ next_file' = None
                /\ idx' = idx + 1
                /\ pc' = "loop"
                /\ UNCHANGED result
    /\ UNCHANGED <<file_paths, opened, loadVars, auxVars>>

\* the loop is over: Ok(combined_file)
ReturnCombined ==
    /\ pc = "loop"
    /\ idx > file_paths
    /\ result' = Some(Ok(Unwrap(combined_file)))
    /\ pc' = "done"
    /\ UNCHANGED <<file_paths, idx, combined_file, next_file, opened, loadVars, auxVars>>

LoadIdle ==
    /\ file = MkFile(GoodMagic, BaseHeader, 400, 0)
    /\ lpc = "idle"
    /\ file_size = 0
    /\ reader_pos = 0
    /\ header = None
    /\ bytes_per_block = 0
    /\ data_size = NoSize
    /\ raw_data = None
    /\ data = None
    /\ load_result = None

Init == CombineInit /\ LoadIdle /\ AuxIdle

Next ==
    \/ NoFiles
    \/ \E f \in FirstFiles \cap FilesOfList(file_paths) : LoadFirstFile(f)
    \/ \E f \in FilesOfList(file_paths) : LoadNextFile(f)
    \/ VerifyHeaders
    \/ CombineData
    \/ ReturnCombined

Spec == Init /\ [][Next]_vars

-----------------------------------------------------------------------------
(* load and load_directory (lib.rs). A file name is the sequence of its       *)
(* bytes; the directory part of a path is the same for every entry and is     *)
(* left out.                                                                  *)

\* most entries in the directory
MaxEntries == 3

Dot == 46

\* U+FFFD REPLACEMENT CHARACTER
ReplacementChar == 65533

\* "a.rhs", "B.RHS", "b.Rhs", "c.txt", "rhs", ".rhs" and a name that is not
\* UTF-8: the byte 0xFF followed by ".rhs"
FileNames ==
    {<<97, 46, 114, 104, 115>>, <<66, 46, 82, 72, 83>>, <<98, 46, 82, 104, 115>>,
     <<99, 46, 116, 120, 116>>, <<114, 104, 115>>, <<46, 114, 104, 115>>,
     <<255, 46, 114, 104, 115>>}

\* the listings read_dir may yield: distinct names in any order
Listings ==
    UNION {{l \in [1..n -> FileNames] : \A i, j \in 1..n : l[i] = l[j] => i = j} :
              n \in 0..MaxEntries}

\* the files a path of the directory layer may name
DirFiles ==
    {MkFile(GoodMagic, BaseHeader, 400, 0),
     MkFile(GoodMagic, BaseHeader, 400, get_bytes_per_data_block(BaseHeader)),
     MkFile(GoodMagic, BaseHeader, 400, 513),
     MkFile(GoodMagic, [BaseHeader EXCEPT !.board_adc_channels = 1], 400, 0)}

\* Path::extension: the part of the file name after its last dot, if the name
\* has a dot that is not its first byte
extension(name) ==
    LET dots == {i \in 1..Len(name) : name[i] = Dot}
    IN  IF dots = {} THEN None
        ELSE LET d == CHOOSE i \in dots : \A j \in dots : j <= i
             IN  IF d = 1 THEN None ELSE Some(SubSeq(name, d + 1, Len(name)))

\* OsStr::to_str: the string, if the bytes are UTF-8 (the names here are ASCII
\* but for the byte 0xFF)
to_str(bytes) == IF \A i \in 1..Len(bytes) : bytes[i] < 128 THEN Some(bytes) ELSE None

to_ascii_lowercase(c) == IF c >= 65 /\ c <= 90 THEN c + 32 ELSE c

eq_ignore_ascii_case(a, b) ==
    /\ Len(a) = Len(b)
    /\ \A i \in 1..Len(a) : to_ascii_lowercase(a[i]) = to_ascii_lowercase(b[i])

\* the filter of load_directory
is_rhs_entry(name) ==
    LET ext == extension(name)
    IN  IF IsNone(ext) THEN FALSE
        ELSE LET str == to_str(Unwrap(ext))
             IN  IF IsNone(str) THEN FALSE
                 ELSE eq_ignore_ascii_case(Unwrap(str), <<114, 104, 115>>)

\* the order of PathBuf on two names of one directory: bytewise lexicographic
RECURSIVE path_less(_, _)
path_less(a, b) ==
    IF b = <<>> THEN FALSE
    ELSE IF a = <<>> THEN TRUE
    ELSE IF Head(a) # Head(b) THEN Head(a) < Head(b)
    ELSE path_less(Tail(a), Tail(b))

\* rhs_files.sort() left out
sort_paths_unsorted(paths) == paths

\* rhs_files.sort()
sort_paths(paths) == SortSeq(paths, path_less)

\* Path::to_string_lossy: any byte that is not UTF-8 becomes U+FFFD
to_string_lossy(name) ==
    [i \in 1..Len(name) |-> IF name[i] >= 128 THEN ReplacementChar ELSE name[i]]

\* the strings of source_files; the combiner model keeps the index k of
\* file_paths[k], the code keeps file_paths[k].to_string_lossy().to_string()
source_strings(rhs) ==
    IF IsNone(rhs.source_files) THEN None
    ELSE LET src == Unwrap(rhs.source_files)
         IN  Some([i \in 1..Len(src) |-> to_string_lossy(rhs_files[src[i]])])

DirInit ==
    /\ path_kind \in {"file", "dir", "other"}
    /\ path_file \in (IF path_kind = "file" THEN {Some(f) : f \in DirFiles} ELSE {None})
    /\ entries \in (IF path_kind = "dir" THEN Listings ELSE {<<>>})
    /\ rhs_files = <<>>
    /\ dpc = "load"
    /\ load_out = None

\* if path.is_file() { reader::load_file(path) }
LoadSingleFile ==
    /\ dpc = "load"
    /\ path_kind = "file"
    /\ load_out' = Some(load_file(Unwrap(path_file)))
    /\ dpc' = "done"
    /\ UNCHANGED <<path_kind, path_file, entries, rhs_files, loadVars, combineVars, notDirVars>>

\* load_directory handing an empty list on to load_and_combine_files
LoadDirectory_no_empty_check ==
    /\ dpc = "load"
    /\ path_kind = "dir"
    /\ LET found == SelectSeq(entries, is_rhs_entry)
       IN  IF found = <<>>
           THEN /\ load_out' = Some(Err("Other: No files to load"))
                /\ dpc' = "done"
                /\ UNCHANGED <<rhs_files, combineVars>>
           ELSE /\ rhs_files' = sort_paths(found)
                /\ file_paths' = Len(found)
                /\ pc' = "start"
                /\ idx' = 1
                /\ dpc' = "combine"
                /\ UNCHANGED <<load_out, combined_file, next_file, opened, result>>
    /\ UNCHANGED <<path_kind, path_file, entries, loadVars, notDirVars>>

\* else if path.is_dir() { load_directory(path) }: the entries are filtered,
\* an empty list is refused, the list is sorted and load_and_combine_files is
\* entered with it
LoadDirectory ==
    /\ dpc = "load"
    /\ path_kind = "dir"
    /\ LET found == SelectSeq(entries, is_rhs_entry)
       IN  IF found = <<>>
           THEN /\ load_out' = Some(Err("Other: No RHS files found in directory"))
                /\ dpc' = "done"
                /\ UNCHANGED <<rhs_files, combineVars>>
           ELSE /\ rhs_files' = sort_paths(found)
                /\ file_paths' = Len(found)
                /\ pc' = "start"
                /\ idx' = 1
                /\ dpc' = "combine"
                /\ UNCHANGED <<load_out, combined_file, next_file, opened, result>>
    /\ UNCHANGED <<path_kind, path_file, entries, loadVars, notDirVars>>

\* load_and_combine_files has returned: load_directory and load return its result
LoadDirectoryReturn ==
    /\ dpc = "combine"
    /\ pc = "done"
    /\ load_out' = result
    /\ dpc' = "done"
    /\ UNCHANGED <<path_kind, path_file, entries, rhs_files, loadVars, combineVars, notDirVars>>

\* else { Err(IntanError::Other("Path ... is neither a file nor a directory")) }
LoadNeither ==
    /\ dpc = "load"
    /\ path_kind = "other"
    /\ load_out' = Some(Err("Other: Path is neither a file nor a directory"))
    /\ dpc' = "done"
    /\ UNCHANGED <<path_kind, path_file, entries, rhs_files, loadVars, combineVars, notDirVars>>

InitDir == DirInit /\ CombineIdle /\ LoadIdle /\ ParseIdle /\ SigIdle

NextDir ==
    \/ LoadSingleFile
    \/ LoadDirectory
    \/ LoadNeither
    \/ \E f \in DirFiles : LoadFirstFile(f)
    \/ \E f \in DirFiles : LoadNextFile(f)
    \/ VerifyHeaders
    \/ CombineData
    \/ ReturnCombined
    \/ LoadDirectoryReturn

SpecDir == InitDir /\ [][NextDir]_vars

-----------------------------------------------------------------------------
(* The channel records and strings of the header: read_qstring and           *)
(* add_channel_information on a stream of bytes.                              *)

\* most channel records in the stream
MaxRecords == 2

\* most bytes after the length field of a string read on its own
MaxStrBytes == 4

\* the length field 0xFFFFFFFF of an empty string
EmptySentinel == [hi |-> 65535, lo |-> 65535]

\* the two bytes of a 16-bit value, least significant first
EncodeI16(v) ==
    LET u == IF v < 0 THEN v + 65536 ELSE v
    IN  <<u % 256, u \div 256>>

\* a string as the file holds it: the sentinel for the empty string, else the
\* length in bytes and the UTF-16 words
EncodeQString(str) ==
    IF str = <<>> THEN <<255, 255, 255, 255>>
    ELSE <<(2 * Len(str)) % 256, (2 * Len(str)) \div 256, 0, 0>>
         \o [i \in 1..(2 * Len(str)) |->
                IF i % 2 = 1 THEN str[(i + 1) \div 2] % 256 ELSE str[i \div 2] \div 256]

\* a channel record as the file holds it
EncodeChannel(rec) ==
    EncodeQString(rec.native_channel_name) \o EncodeQString(rec.custom_channel_name)
    \o EncodeI16(rec.native_order) \o EncodeI16(rec.custom_order)
    \o EncodeI16(rec.signal_type) \o EncodeI16(rec.channel_enabled)
    \o EncodeI16(rec.chip_channel) \o EncodeI16(0) \o EncodeI16(rec.board_stream)
    \o EncodeI16(rec.voltage_trigger_mode) \o EncodeI16(rec.voltage_threshold)
    \o EncodeI16(rec.digital_trigger_channel) \o EncodeI16(rec.digital_edge_polarity)
    \o <<0, 0, 0, 0>> \o <<0, 0, 0, 0>>

RECURSIVE EncodeChannels(_)
EncodeChannels(recs) ==
    IF recs = <<>> THEN <<>> ELSE EncodeChannel(Head(recs)) \o EncodeChannels(Tail(recs))

\* the channel records offered: every signal type code from -1 to 7, enabled
\* or not, with an empty or a one-letter native name (and a trigger threshold
\* that goes with the name); two more with an enabled flag of -1
ChannelRecords ==
    {[native_channel_name |-> n, custom_channel_name |-> <<>>, native_order |-> 3,
      custom_order |-> 3, signal_type |-> t, channel_enabled |-> e, chip_channel |-> 3,
      board_stream |-> 1, voltage_trigger_mode |-> 1,
      voltage_threshold |-> IF n = <<>> THEN 70 ELSE -70,
      digital_trigger_channel |-> 0, digital_edge_polarity |-> 1] :
        n \in {<<>>, <<65>>}, t \in -1..7, e \in {0, 1}}
    \cup
    {[native_channel_name |-> <<65>>, custom_channel_name |-> <<>>, native_order |-> 3,
      custom_order |-> 3, signal_type |-> t, channel_enabled |-> -1, chip_channel |-> 3,
      board_stream |-> 1, voltage_trigger_mode |-> 1, voltage_threshold |-> -70,
      digital_trigger_channel |-> 0, digital_edge_polarity |-> 1] : t \in {0, 1}}

RecordLists == UNION {[1..n -> ChannelRecords] : n \in 1..MaxRecords}

\* the bytes a string read on its own may find
StringBytes == {0, 65, 216}

\* the length fields of a string read on its own: 0 to MaxStrBytes + 2, 65536
\* and the sentinel
LengthFields ==
    {<<k, 0, 0, 0>> : k \in 0..(MaxStrBytes + 2)} \cup {<<0, 0, 1, 0>>, <<255, 255, 255, 255>>}

\* the streams a string is read from on its own: a length field and up to
\* MaxStrBytes bytes, the stream ending there
StringStreams ==
    {len \o body : len \in LengthFields,
                   body \in UNION {[1..n -> StringBytes] : n \in 0..MaxStrBytes}}

\* reader.read_i16::<LittleEndian>() at position pos, as i32
read_i16_le(s, pos) ==
    LET u == s[pos + 1] + 256 * s[pos + 2]
    IN  IF u >= 32768 THEN u - 65536 ELSE u

\* length as u64 > x, for x below 65536
u32_gt(length, x) == length.hi > 0 \/ length.lo > x

\* read_qstring taking the length field for a count of 16-bit words
read_qstring_length_in_words(s, pos) ==
    IF pos + 4 > Len(s) THEN Err("IoError")
    ELSE
    LET length == read_u32_le(SubSeq(s, pos + 1, pos + 4))
        current_position == pos + 4
        file_length == Len(s)
    IN  IF length = EmptySentinel THEN Ok([str |-> <<>>, pos |-> current_position])
        ELSE IF u32_gt(length, file_length - current_position + 1)
        THEN Err("StringReadError")
        ELSE
        LET n == length.lo
            words == [i \in 1..n |-> s[current_position + 2 * i - 1]
                                        + 256 * s[current_position + 2 * i]]
        IN  IF current_position + 2 * n > file_length THEN Err("IoError")
            ELSE IF \E i \in 1..n : words[i] >= 55296 /\ words[i] <= 57343
            THEN Err("StringReadError")
            ELSE Ok([str |-> words, pos |-> current_position + 2 * n])

\* read_qstring at position pos of stream s: Ok of the string (its UTF-16
\* words) and the position after it, or an error
read_qstring(s, pos) ==
    IF pos + 4 > Len(s) THEN Err("IoError")
    ELSE
    LET length == read_u32_le(SubSeq(s, pos + 1, pos + 4))
        current_position == pos + 4
        file_length == Len(s)
    IN  IF length = EmptySentinel THEN Ok([str |-> <<>>, pos |-> current_position])
        ELSE IF u32_gt(length, file_length - current_position + 1)
        THEN Err("StringReadError")
        ELSE
        LET n == length.lo \div 2
            words == [i \in 1..n |-> s[current_position + 2 * i - 1]
                                        + 256 * s[current_position + 2 * i]]
        IN  IF current_position + 2 * n > file_length THEN Err("IoError")
            ELSE IF \E i \in 1..n : words[i] >= 55296 /\ words[i] <= 57343
            THEN Err("StringReadError")
            ELSE Ok([str |-> words, pos |-> current_position + 2 * n])

\* dispatch_channel taking the auxiliary input channels (code 1) as ADC channels
dispatch_channel_aux_as_adc(h, signal_type, channel_enabled, new_channel, new_trigger) ==
    IF channel_enabled = 0 THEN Ok(h)
    ELSE IF signal_type = 0
    THEN Ok([h EXCEPT !.amplifier_channels = Append(@, new_channel),
                      !.spike_triggers = Append(@, new_trigger)])
    ELSE IF signal_type = 1
    THEN Ok([h EXCEPT !.board_adc_channels = Append(@, new_channel)])
    ELSE IF signal_type = 2 THEN Err("InvalidChannelType")
    ELSE IF signal_type = 3
    THEN Ok([h EXCEPT !.board_adc_channels = Append(@, new_channel)])
    ELSE IF signal_type = 4
    THEN Ok([h EXCEPT !.board_dac_channels = Append(@, new_channel)])
    ELSE IF signal_type = 5
    THEN Ok([h EXCEPT !.board_dig_in_channels = Append(@, new_channel)])
    ELSE IF signal_type = 6
    THEN Ok([h EXCEPT !.board_dig_out_channels = Append(@, new_channel)])
    ELSE Err("InvalidChannelType")

\* dispatch_channel looking at the signal type before the enabled flag
dispatch_channel_type_first(h, signal_type, channel_enabled, new_channel, new_trigger) ==
    IF signal_type \notin {0, 3, 4, 5, 6} THEN Err("InvalidChannelType")
    ELSE IF channel_enabled = 0 THEN Ok(h)
    ELSE IF signal_type = 0
    THEN Ok([h EXCEPT !.amplifier_channels = Append(@, new_channel),
                      !.spike_triggers = Append(@, new_trigger)])
    ELSE IF signal_type = 3
    THEN Ok([h EXCEPT !.board_adc_channels = Append(@, new_channel)])
    ELSE IF signal_type = 4
    THEN Ok([h EXCEPT !.board_dac_channels = Append(@, new_channel)])
    ELSE IF signal_type = 5
    THEN Ok([h EXCEPT !.board_dig_in_channels = Append(@, new_channel)])
    ELSE Ok([h EXCEPT !.board_dig_out_channels = Append(@, new_channel)])

\* dispatch_channel putting the new spike trigger before those already listed
dispatch_channel_trigger_first(h, signal_type, channel_enabled, new_channel, new_trigger) ==
    IF channel_enabled = 0 THEN Ok(h)
    ELSE IF signal_type = 0
    THEN Ok([h EXCEPT !.amplifier_channels = Append(@, new_channel),
                      !.spike_triggers = <<new_trigger>> \o @])
    ELSE IF signal_type = 1 THEN Err("InvalidChannelType")
    ELSE IF signal_type = 2 THEN Err("InvalidChannelType")
    ELSE IF signal_type = 3
    THEN Ok([h EXCEPT !.board_adc_channels = Append(@, new_channel)])
    ELSE IF signal_type = 4
    THEN Ok([h EXCEPT !.board_dac_channels = Append(@, new_channel)])
    ELSE IF signal_type = 5
    THEN Ok([h EXCEPT !.board_dig_in_channels = Append(@, new_channel)])
    ELSE IF signal_type = 6
    THEN Ok([h EXCEPT !.board_dig_out_channels = Append(@, new_channel)])
    ELSE Err("InvalidChannelType")

\* the end of add_channel_information: a record that is not enabled is dropped,
\* an enabled one goes to the list of its signal type
dispatch_channel(h, signal_type, channel_enabled, new_channel, new_trigger) ==
    IF channel_enabled = 0 THEN Ok(h)
    ELSE IF signal_type = 0
    THEN Ok([h EXCEPT !.amplifier_channels = Append(@, new_channel),
                      !.spike_triggers = Append(@, new_trigger)])
    ELSE IF signal_type = 1 THEN Err("InvalidChannelType")
    ELSE IF signal_type = 2 THEN Err("InvalidChannelType")
    ELSE IF signal_type = 3
    THEN Ok([h EXCEPT !.board_adc_channels = Append(@, new_channel)])
    ELSE IF signal_type = 4
    THEN Ok([h EXCEPT !.board_dac_channels = Append(@, new_channel)])
    ELSE IF signal_type = 5
    THEN Ok([h EXCEPT !.board_dig_in_channels = Append(@, new_channel)])
    ELSE IF signal_type = 6
    THEN Ok([h EXCEPT !.board_dig_out_channels = Append(@, new_channel)])
    ELSE Err("InvalidChannelType")

\* add_channel_information at position pos of stream s: the two strings, then
\* thirteen 16-bit fields and two 32-bit floats (30 bytes), then the dispatch.
\* Ok of the header and the position after the record, or an error.
add_channel_information(h, s, pos) ==
    LET q1 == read_qstring(s, pos)
    IN  IF IsErr(q1) THEN q1
        ELSE
        LET q2 == read_qstring(s, q1.val.pos)
        IN  IF IsErr(q2) THEN q2
            ELSE
            LET p == q2.val.pos
            IN  IF p + 30 > Len(s) THEN Err("IoError")
                ELSE
                LET new_channel ==
                        [native_channel_name |-> q1.val.str,
                         custom_channel_name |-> q2.val.str,
                         native_order |-> read_i16_le(s, p),
                         custom_order |-> read_i16_le(s, p + 2),
                         chip_channel |-> read_i16_le(s, p + 8),
                         board_stream |-> read_i16_le(s, p + 12)]
                    new_trigger ==
                        [voltage_trigger_mode |-> read_i16_le(s, p + 14),
                         voltage_threshold |-> read_i16_le(s, p + 16),
                         digital_trigger_channel |-> read_i16_le(s, p + 18),
                         digital_edge_polarity |-> read_i16_le(s, p + 20)]
                    signal_type == read_i16_le(s, p + 4)
                    channel_enabled == read_i16_le(s, p + 6)
                    r == dispatch_channel(h, signal_type, channel_enabled,
                                          new_channel, new_trigger)
                IN  IF IsErr(r) THEN r
                    ELSE Ok([header |-> r.val, pos |-> p + 30])

\* the first bytes of a header as the file holds them: the magic number, the
\* version, the sample rate 30000.0, the DSP flag, eight floats of numbered
\* bytes, the notch filter mode, and the two impedance test frequencies, the
\* 16-bit halves of the first being 7 and `after`
HeaderStream(major, dsp, mode, after) ==
    GoodMagic \o EncodeI16(major) \o EncodeI16(0) \o <<0, 96, 234, 70>>
    \o EncodeI16(dsp) \o [i \in 1..32 |-> 100 + i]
    \o EncodeI16(mode) \o EncodeI16(7) \o EncodeI16(after) \o <<0, 0, 128, 63>>

\* the header streams offered: both sides of version 3, every notch filter mode
\* from -1 to 3; three of them cut short, one with another magic number
HeaderStreams ==
    {HeaderStream(major, dsp, mode, after) :
        major \in {1, 3}, dsp \in {0, 1}, mode \in -1..3, after \in 0..2}
    \cup {SubSeq(HeaderStream(1, 1, 1, 2), 1, n) : n \in {10, 45, 47}}
    \cup {<<214, 145, 39, 172>> \o SubSeq(HeaderStream(1, 1, 1, 2), 5, 56)}

\* reader.read_f32::<LittleEndian>() at position pos, as the bit pattern
read_f32_le(s, pos) == read_u32_le(SubSeq(s, pos + 1, pos + 4))

\* the start of read_header: check_magic_number, read_version_number and the
\* sample rate. Ok of the header and the position after, or an error.
read_version_and_rate(h, s, pos) ==
    IF pos + 4 > Len(s) THEN Err("IoError")
    ELSE IF read_u32_le(SubSeq(s, pos + 1, pos + 4)) # RHS_MAGIC_NUMBER
    THEN Err("UnrecognizedFileFormat")
    ELSE IF pos + 8 > Len(s) THEN Err("IoError")
    ELSE IF pos + 12 > Len(s) THEN Err("IoError")
    ELSE Ok([header |-> [h EXCEPT !.version = [major |-> read_i16_le(s, pos + 4),
                                               minor |-> read_i16_le(s, pos + 6)],
                                  !.sample_rate = read_f32_le(s, pos + 8)],
             pos |-> pos + 12])

\* read_freq_settings reading a float more, as the documented layout has it
read_freq_settings_nine_floats(h, s, pos) ==
    IF pos + 38 > Len(s) THEN Err("IoError")
    ELSE Ok([header |->
                 [h EXCEPT !.dsp_enabled = read_i16_le(s, pos),
                           !.actual_dsp_cutoff_frequency = read_f32_le(s, pos + 2),
                           !.actual_lower_bandwidth = read_f32_le(s, pos + 6),
                           !.actual_lower_settle_bandwidth = read_f32_le(s, pos + 10),
                           !.actual_upper_bandwidth = read_f32_le(s, pos + 14),
                           !.desired_dsp_cutoff_frequency = read_f32_le(s, pos + 18),
                           !.desired_lower_bandwidth = read_f32_le(s, pos + 22),
                           !.desired_lower_settle_bandwidth = read_f32_le(s, pos + 26),
                           !.desired_upper_bandwidth = read_f32_le(s, pos + 30)],
             pos |-> pos + 38])

\* read_freq_settings: the DSP flag (16 bits) and eight floats, 34 bytes
read_freq_settings(h, s, pos) ==
    IF pos + 34 > Len(s) THEN Err("IoError")
    ELSE Ok([header |->
                 [h EXCEPT !.dsp_enabled = read_i16_le(s, pos),
                           !.actual_dsp_cutoff_frequency = read_f32_le(s, pos + 2),
                           !.actual_lower_bandwidth = read_f32_le(s, pos + 6),
                           !.actual_lower_settle_bandwidth = read_f32_le(s, pos + 10),
                           !.actual_upper_bandwidth = read_f32_le(s, pos + 14),
                           !.desired_dsp_cutoff_frequency = read_f32_le(s, pos + 18),
                           !.desired_lower_bandwidth = read_f32_le(s, pos + 22),
                           !.desired_lower_settle_bandwidth = read_f32_le(s, pos + 26),
                           !.desired_upper_bandwidth = read_f32_le(s, pos + 30)],
             pos |-> pos + 34])

\* the notch filter frequency a mode code stands for
notch_filter_frequency_of(notch_filter_mode) ==
    CASE notch_filter_mode = 1 -> Some(50)
      [] notch_filter_mode = 2 -> Some(60)
      [] OTHER -> None

read_notch_filter_frequency(h, s, pos) ==
    IF pos + 2 > Len(s) THEN Err("IoError")
    ELSE LET notch_filter_mode == read_i16_le(s, pos)
         IN  Ok([header |-> [h EXCEPT !.notch_filter_frequency =
                                          notch_filter_frequency_of(notch_filter_mode)],
                 pos |-> pos + 2])

\* the stream of the channel records, whole; with one record, also cut short
\* by one byte
ParseInitChannels ==
    /\ records \in RecordLists
    /\ stream \in {EncodeChannels(records)}
                    \cup (IF Len(records) = 1
                          THEN {SubSeq(EncodeChannels(records), 1,
                                       Len(EncodeChannels(records)) - 1)}
                          ELSE {})
    /\ stream_pos = 0
    /\ rec_idx = 1
    /\ parsed = NoChannels
    /\ ppc = "channels"
    /\ parse_result = None
    /\ fixed_fields = DefaultFields

ParseInitString ==
    /\ records = <<>>
    /\ stream \in StringStreams
    /\ stream_pos = 0
    /\ rec_idx = 0
    /\ parsed = NoChannels
    /\ ppc = "qstring"
    /\ parse_result = None
    /\ fixed_fields = DefaultFields

\* the start of a header: the stream begins with the magic number
ParseInitHeader ==
    /\ records = <<>>
    /\ stream \in HeaderStreams
    /\ stream_pos = 0
    /\ rec_idx = 0
    /\ parsed = NoChannels
    /\ ppc = "version"
    /\ parse_result = None
    /\ fixed_fields = DefaultFields

ParseInit == ParseInitChannels \/ ParseInitString \/ ParseInitHeader

\* one turn of the loop of add_signal_group_information:
\* add_channel_information(header, reader, ..)?
AddChannelInformation ==
    /\ ppc = "channels"
    /\ rec_idx <= Len(records)
    /\ LET r == add_channel_information(parsed, stream, stream_pos)
       IN  IF IsErr(r)
           THEN /\ parse_result' = Some(r)
                /\ ppc' = "done"
                /\ UNCHANGED <<parsed, stream_pos, rec_idx>>
           ELSE /\ parsed' = r.val.header
                /\ stream_pos' = r.val.pos
                /\ rec_idx' = rec_idx + 1
                /\ UNCHANGED <<parse_result, ppc>>
    /\ UNCHANGED <<records, stream, fixed_fields, loadVars, combineVars, notParseVars>>

\* the loop is over: Ok(())
ChannelsDone ==
    /\ ppc = "channels"
    /\ rec_idx > Len(records)
    /\ parse_result' = Some(Ok(parsed))
    /\ ppc' = "done"
    /\ UNCHANGED <<records, stream, stream_pos, rec_idx, parsed, fixed_fields, loadVars,
                   combineVars, notParseVars>>

\* one call of read_qstring
ReadQString ==
    /\ ppc = "qstring"
    /\ LET r == read_qstring(stream, stream_pos)
       IN  /\ parse_result' = Some(r)
           /\ stream_pos' = IF IsOk(r) THEN r.val.pos ELSE stream_pos
    /\ ppc' = "done"
    /\ UNCHANGED <<records, stream, rec_idx, parsed, fixed_fields, loadVars, combineVars,
                   notParseVars>>

\* check_magic_number, read_version_number and the sample rate
ReadVersionAndRate ==
    /\ ppc = "version"
    /\ LET r == read_version_and_rate(fixed_fields, stream, stream_pos)
       IN  IF IsErr(r)
           THEN /\ parse_result' = Some(r)
                /\ ppc' = "header_done"
                /\ UNCHANGED <<fixed_fields, stream_pos>>
           ELSE /\ fixed_fields' = r.val.header
                /\ stream_pos' = r.val.pos
                /\ ppc' = "freq_settings"
                /\ UNCHANGED parse_result
    /\ UNCHANGED <<records, stream, rec_idx, parsed, loadVars, combineVars, notParseVars>>

\* read_freq_settings(reader, &mut header)?
ReadFreqSettings ==
    /\ ppc = "freq_settings"
    /\ LET r == read_freq_settings(fixed_fields, stream, stream_pos)
       IN  IF IsErr(r)
           THEN /\ parse_result' = Some(r)
                /\ ppc' = "header_done"
                /\ UNCHANGED <<fixed_fields, stream_pos>>
           ELSE /\ fixed_fields' = r.val.header
                /\ stream_pos' = r.val.pos
                /\ ppc' = "notch_filter"
                /\ UNCHANGED parse_result
    /\ UNCHANGED <<records, stream, rec_idx, parsed, loadVars, combineVars, notParseVars>>

\* read_notch_filter_frequency(reader, &mut header)?
ReadNotchFilterFrequency ==
    /\ ppc = "notch_filter"
    /\ LET r == read_notch_filter_frequency(fixed_fields, stream, stream_pos)
       IN  IF IsErr(r)
           THEN /\ parse_result' = Some(r)
                /\ UNCHANGED <<fixed_fields, stream_pos>>
           ELSE /\ fixed_fields' = r.val.header
                /\ stream_pos' = r.val.pos
                /\ parse_result' = Some(Ok(r.val.header))
    /\ ppc' = "header_done"
    /\ UNCHANGED <<records, stream, rec_idx, parsed, loadVars, combineVars, notParseVars>>

InitParse == ParseInit /\ LoadIdle /\ CombineIdle /\ DirIdle /\ SigIdle

NextParse ==
    \/ AddChannelInformation
    \/ ChannelsDone
    \/ ReadQString
    \/ ReadVersionAndRate
    \/ ReadFreqSettings
    \/ ReadNotchFilterFrequency

SpecParse == InitParse /\ [][NextParse]_vars

-----------------------------------------------------------------------------
(* The values of the samples: the words of a block as read_analog_signal_type *)
(* and read_digital_signal_type store them, and scale_amplifier_data,         *)
(* extract_stim_data and extract_digital_data applied to them. A scaled        *)
(* amplifier value is a whole number of thousandths of a microvolt; the stim   *)
(* step size is a whole number of halves.                                      *)

\* most channels of a digital kind in a list of more than one
MaxDigChannels == 2

\* most samples in the block of digital words
MaxDigSamples == 1

\* most timestamps in the block handed to check_timestamps
MaxTimestamps == 2

\* the samples of each channel handed to process_data
MaxFilterSamples == 3

\* most channels of the signal whose layout in the block is followed
MaxLayoutChannels == 2

\* most blocks of the signal whose layout in the block is followed
MaxLayoutBlocks == 2

\* AMPLIFIER_SCALE_FACTOR (0.195), in thousandths
AMPLIFIER_SCALE_FACTOR == 195

ADC_DAC_OFFSET == 32768

\* DC_AMPLIFIER_SCALE_FACTOR (19.23 mV) over 1000, in hundred-thousandths of a volt
DC_AMPLIFIER_SCALE_FACTOR == 1923

DC_AMPLIFIER_OFFSET == 512

\* ADC_DAC_SCALE_FACTOR (0.0003125), in ten-millionths of a volt
ADC_DAC_SCALE_FACTOR == 3125

\* the bandwidth process_data gives notch_filter
NOTCH_BANDWIDTH == 10

\* every 16-bit word, as its two bytes
AllWords == {<<lo, hi>> : lo \in 0..255, hi \in 0..255}

\* the stim words: every amplitude with every setting of the polarity bit and
\* of the bits 13 to 15, the unused bits 9 to 12 all clear or all set
StimWords ==
    {<<lo, 128 * b15 + 64 * b14 + 32 * b13 + 30 * unused + b8>> :
        lo \in 0..255, b15 \in 0..1, b14 \in 0..1, b13 \in 0..1, unused \in 0..1,
        b8 \in 0..1}

\* the step sizes 0.5, 1 and 2.5, in halves
StepSizes == {1, 2, 5}

\* the digital words: no bit, every single bit, 0b101, all bits, all but bit 15
DigitalWords ==
    {<<0, 0>>, <<5, 0>>, <<255, 255>>, <<255, 127>>}
        \cup {<<2 ^ k, 0>> : k \in 0..7} \cup {<<0, 2 ^ k>> : k \in 0..7}

\* the channel lists of a digital kind: one channel of any native order, or up
\* to MaxDigChannels channels of the orders 0, 1, 2 and 15
DigitalChannelLists ==
    {<<n>> : n \in 0..15}
        \cup UNION {[1..k -> {0, 1, 2, 15}] : k \in 2..MaxDigChannels}

\* i16::from_le_bytes([b0, b1]) as i32
i16_from_le_bytes(b) ==
    LET u == b[1] + 256 * b[2]
    IN  IF u >= 32768 THEN u - 65536 ELSE u

\* u16::from_le_bytes([b0, b1]) as i32
u16_from_le_bytes(b) == b[1] + 256 * b[2]

\* value & mask on i32, for a mask below 65536: the bits come from the low 16
\* bits of the two's complement of value
i32_and(value, mask) ==
    LET u == value % 65536
        Bit(x, k) == (x \div (2 ^ k)) % 2
        RECURSIVE Sum(_)
        Sum(k) == IF k < 0 THEN 0
                  ELSE Bit(u, k) * Bit(mask, k) * (2 ^ k) + Sum(k - 1)
    IN  Sum(15)

\* `as i32` of a float given as a number of halves: toward zero
halves_as_i32(h) == IF h < 0 THEN -((-h) \div 2) ELSE h \div 2

\* the closure of scale_amplifier_data without the reinterpretation of negative
\* values
scale_amplifier_value_signed(x) == (x - ADC_DAC_OFFSET) * AMPLIFIER_SCALE_FACTOR

\* the closure of scale_amplifier_data, on one value
scale_amplifier_value(x) ==
    LET unsigned_val == IF x < 0 THEN x + 65536 ELSE x
    IN  (unsigned_val - ADC_DAC_OFFSET) * AMPLIFIER_SCALE_FACTOR

\* the body of the loops of extract_stim_data, on one value
extract_stim_value(value, step_size) ==
    LET stim_polarity == 1 - 2 * (i32_and(value, 256) \div 256)
        curr_amp == i32_and(value, 255)
    IN  [stim_data |-> halves_as_i32((curr_amp * stim_polarity) * step_size),
         compliance_limit_data |-> i32_and(value, 32768) # 0,
         charge_recovery_data |-> i32_and(value, 16384) # 0,
         amp_settle_data |-> i32_and(value, 8192) # 0]

\* extract_digital_data with the mask taken from the row index
extract_digital_values_by_row(raw_row, channels) ==
    [i \in 1..Len(channels) |->
        [j \in 1..Len(raw_row) |->
            IF i32_and(raw_row[j], 2 ^ (i - 1)) # 0 THEN 1 ELSE 0]]

\* extract_digital_data on the values of row 0 of the raw array and the
\* native_order of each channel: one row per channel
extract_digital_values(raw_row, channels) ==
    [i \in 1..Len(channels) |->
        [j \in 1..Len(raw_row) |->
            LET mask == 2 ^ channels[i]
            IN  IF i32_and(raw_row[j], mask) # 0 THEN 1 ELSE 0]]

\* the timestamps offered, as bytes: 0, 1, 2, -1, the least and the greatest i32
TimestampWords ==
    {<<0, 0, 0, 0>>, <<1, 0, 0, 0>>, <<2, 0, 0, 0>>, <<255, 255, 255, 255>>,
     <<0, 0, 0, 128>>, <<255, 255, 255, 127>>}

\* i32::from_le_bytes, the i32 kept as the halves of its two's complement: the
\* value is hi * 65536 + lo with hi in -32768..32767 and lo in 0..65535
i32_from_le_bytes(b) ==
    LET h == b[3] + 256 * b[4]
    IN  [hi |-> IF h >= 32768 THEN h - 65536 ELSE h, lo |-> b[1] + 256 * b[2]]

\* the difference a - b of two i32 as a number: its halves, hi of any size
i32_difference(a, b) ==
    LET lo == a.lo - b.lo
        borrow == IF lo < 0 THEN 1 ELSE 0
    IN  [hi |-> a.hi - b.hi - borrow, lo |-> lo + 65536 * borrow]

\* a - b does not fit an i32
i32_sub_overflows(a, b) ==
    LET diff == i32_difference(a, b)
    IN  diff.hi < -32768 \/ diff.hi > 32767

\* a - b on i32 in a build without overflow checks: the difference modulo 2^32
i32_wrapping_sub(a, b) ==
    LET diff == i32_difference(a, b)
    IN  [hi |-> ((diff.hi + 32768) % 65536) - 32768, lo |-> diff.lo]

\* check_timestamps: the number of adjacent pairs whose difference is not 1. The
\* subtraction is done on i32: where it overflows, a build with overflow checks
\* panics and a build without them goes on with the wrapped difference.
check_timestamps(timestamps, overflow_checks) ==
    LET windows == 1..(Len(timestamps) - 1)
    IN  IF overflow_checks
            /\ \E w \in windows : i32_sub_overflows(timestamps[w + 1], timestamps[w])
        THEN Panic
        ELSE LET num_gaps ==
                     Cardinality({w \in windows :
                         i32_wrapping_sub(timestamps[w + 1], timestamps[w])
                             # [hi |-> 0, lo |-> 1]})
             IN  Ok(num_gaps)

\* the words of the channels handed to process_data: 32768, 32968 and 0
ProcessWords == {<<0, 128>>, <<200, 128>>, <<0, 0>>}

\* the headers process_data runs under: the versions 1 to 4, the notch filter
\* off, at 50 Hz and at 60 Hz, the sample rate 30 kHz
ProcessHeaders ==
    {[version |-> [major |-> major, minor |-> 0], sample_rate |-> 3000000,
      notch_filter_frequency |-> notch, num_channels |-> 1] :
        major \in 1..4, notch \in {None, Some(50), Some(60)}}

\* an f64: a number, or the value notch_filter computes from five others
F64(x) == [op |-> "f64", args |-> <<x>>, filter |-> <<>>]

\* notch_filter: the first two samples are kept; every later one is computed
\* from the sample, the two before it and the two outputs before it, with
\* coefficients that f_sample, f_notch and bandwidth fix
notch_filter(signal_in, f_sample, f_notch, bandwidth) ==
    LET signal_length == Len(signal_in)
        RECURSIVE signal_out(_)
        signal_out(i) ==
            IF i <= 2 THEN signal_in[i]
            ELSE [op |-> "notch",
                  args |-> <<signal_in[i], signal_in[i - 1], signal_in[i - 2],
                             signal_out(i - 2), signal_out(i - 1)>>,
                  filter |-> <<f_sample, f_notch, bandwidth>>]
    IN  [i \in 1..signal_length |-> signal_out(i)]

\* apply_notch_filter without the test of the version
apply_notch_filter_any_version(h, data_) ==
    IF IsNone(h.notch_filter_frequency) THEN data_
    ELSE LET notch_freq == Unwrap(h.notch_filter_frequency)
         IN  [i \in 1..Len(data_) |->
                 notch_filter(data_[i], h.sample_rate, notch_freq, NOTCH_BANDWIDTH)]

\* apply_notch_filter on a matrix given as the sequence of its rows
apply_notch_filter(h, data_) ==
    IF IsNone(h.notch_filter_frequency) THEN data_
    ELSE IF h.version.major >= 3 THEN data_
    ELSE LET notch_freq == Unwrap(h.notch_filter_frequency)
         IN  [i \in 1..Len(data_) |->
                 notch_filter(data_[i], h.sample_rate, notch_freq, NOTCH_BANDWIDTH)]

\* the closure of scale_dc_amplifier_data, on one value
scale_dc_amplifier_value(x) ==
    LET unsigned_val == IF x < 0 THEN x + 65536 ELSE x
    IN  (unsigned_val - DC_AMPLIFIER_OFFSET) * DC_AMPLIFIER_SCALE_FACTOR

\* the closure of scale_adc_data and of scale_dac_data, on one value
scale_adc_value(x) ==
    LET unsigned_val == IF x < 0 THEN x + 65536 ELSE x
    IN  (unsigned_val - ADC_DAC_OFFSET) * ADC_DAC_SCALE_FACTOR

\* the raw arrays after a block whose channels all hold the words given: a row
\* per analog kind, and the row 0 of each digital kind
read_signals(words) ==
    LET analog == [j \in 1..Len(words) |-> i16_from_le_bytes(words[j])]
        digital == [j \in 1..Len(words) |-> u16_from_le_bytes(words[j])]
    IN  [amplifier_data_raw |-> <<analog>>, dc_amplifier_data_raw |-> <<analog>>,
         stim_data_raw |-> <<analog>>, board_adc_data_raw |-> <<analog>>,
         board_dac_data_raw |-> <<analog>>, board_dig_in_raw |-> digital,
         board_dig_out_raw |-> digital]

\* process_data on the values: every kind is scaled or extracted element by
\* element (mapv), and the amplifier matrix alone is handed to
\* apply_notch_filter
process_signals(h, raw, step_size, channels) ==
    LET amp == raw.amplifier_data_raw
        dc == raw.dc_amplifier_data_raw
        stim == raw.stim_data_raw
        adc == raw.board_adc_data_raw
        dac == raw.board_dac_data_raw
    IN  [amplifier_data |->
             apply_notch_filter(h,
                 [i \in 1..Len(amp) |->
                     [j \in 1..Len(amp[i]) |-> F64(scale_amplifier_value(amp[i][j]))]]),
         dc_amplifier_data |->
             [i \in 1..Len(dc) |->
                 [j \in 1..Len(dc[i]) |-> F64(scale_dc_amplifier_value(dc[i][j]))]],
         stim_data |->
             [i \in 1..Len(stim) |->
                 [j \in 1..Len(stim[i]) |->
                     extract_stim_value(stim[i][j], step_size).stim_data]],
         board_adc_data |->
             [i \in 1..Len(adc) |->
                 [j \in 1..Len(adc[i]) |-> F64(scale_adc_value(adc[i][j]))]],
         board_dac_data |->
             [i \in 1..Len(dac) |->
                 [j \in 1..Len(dac[i]) |-> F64(scale_adc_value(dac[i][j]))]],
         board_dig_in_data |-> extract_digital_values(raw.board_dig_in_raw, channels),
         board_dig_out_data |-> extract_digital_values(raw.board_dig_out_raw, channels)]

\* the bytes of block b (from 0) of a signal of n channels: the word k (from 0)
\* of the block holds base + b * 128 * n + k
LayoutBlock(b, n, base) ==
    [k \in 1..(2 * SAMPLES_PER_DATA_BLOCK * n) |->
        EncodeI16(base + b * SAMPLES_PER_DATA_BLOCK * n + (k - 1) \div 2)[((k - 1) % 2) + 1]]

\* Array2::zeros: rows and columns count from 0; a cell holds its value and the
\* number of times it was written
zeros(rows, cols) ==
    [ch \in 0..(rows - 1) |-> [c \in 0..(cols - 1) |-> [value |-> 0, writes |-> 0]]]

\* read_analog_signal_type filling a row after the other from the buffer
read_analog_signal_values_row_major(buffer, dest, start, num_samples_, num_channels) ==
    IF num_channels < 1 THEN dest
    ELSE
    LET end == start + num_samples_
    IN  [ch \in DOMAIN dest |->
            [c \in DOMAIN dest[ch] |->
                IF ch < num_channels /\ c >= start /\ c < end
                THEN LET s == c - start
                         idx_ == 2 * (ch * num_samples_ + s)
                         sample == i16_from_le_bytes(<<buffer[idx_ + 1], buffer[idx_ + 2]>>)
                     IN  [value |-> sample, writes |-> dest[ch][c].writes + 1]
                ELSE dest[ch][c]]]

\* read_analog_signal_type on the bytes of the buffer it read: the loops over
\* ch and s write t_slice[[ch, s]], the cell [ch, start + s] of dest, once each
read_analog_signal_values(buffer, dest, start, num_samples_, num_channels) ==
    IF num_channels < 1 THEN dest
    ELSE
    LET end == start + num_samples_
    IN  [ch \in DOMAIN dest |->
            [c \in DOMAIN dest[ch] |->
                IF ch < num_channels /\ c >= start /\ c < end
                THEN LET s == c - start
                         idx_ == 2 * (s * num_channels + ch)
                         sample == i16_from_le_bytes(<<buffer[idx_ + 1], buffer[idx_ + 2]>>)
                     IN  [value |-> sample, writes |-> dest[ch][c].writes + 1]
                ELSE dest[ch][c]]]

SigInitWords ==
    /\ sig_kind \in {"amplifier", "stim", "digital"}
    /\ sample_bytes \in
          (CASE sig_kind = "amplifier" -> {<<w>> : w \in AllWords}
             [] sig_kind = "stim" -> {<<w>> : w \in StimWords}
             [] sig_kind = "digital" ->
                    UNION {[1..n -> DigitalWords] : n \in 1..MaxDigSamples})
    /\ stim_step_size \in (IF sig_kind = "stim" THEN StepSizes ELSE {2})
    /\ dig_channels \in (IF sig_kind = "digital" THEN DigitalChannelLists ELSE {<<>>})
    /\ raw_values = None
    /\ sig_out = None
    /\ sig_header = NoSigHeader
    /\ block_idx = 0

\* the timestamps of a block, as the four bytes of each
SigInitTimestamps ==
    /\ sig_kind = "timestamps"
    /\ sample_bytes \in UNION {[1..n -> TimestampWords] : n \in 1..MaxTimestamps}
    /\ stim_step_size = 2
    /\ dig_channels = <<>>
    /\ raw_values = None
    /\ sig_out = None
    /\ sig_header = NoSigHeader
    /\ block_idx = 0

\* one channel of every kind, all holding the same words, under a header of any
\* version and notch filter setting
SigInitProcess ==
    /\ sig_kind = "process"
    /\ sample_bytes \in [1..MaxFilterSamples -> ProcessWords]
    /\ stim_step_size = 2
    /\ dig_channels = <<0>>
    /\ raw_values = None
    /\ sig_out = None
    /\ sig_header \in ProcessHeaders
    /\ block_idx = 0

\* the blocks of a signal of some channels, every word of another value
SigInitLayout ==
    /\ sig_kind = "layout"
    /\ \E n \in 1..MaxLayoutChannels, blocks \in 1..MaxLayoutBlocks, base \in {0, -300} :
          /\ sample_bytes = [b \in 1..blocks |-> LayoutBlock(b - 1, n, base)]
          /\ sig_header = [NoSigHeader EXCEPT !.num_channels = n]
    /\ stim_step_size = 2
    /\ dig_channels = <<>>
    /\ raw_values = None
    /\ sig_out = None
    /\ block_idx = 0

SigInit == SigInitWords \/ SigInitTimestamps \/ SigInitProcess \/ SigInitLayout

\* read_timestamps: i32::from_le_bytes of every four bytes
ReadTimestamps ==
    /\ sig_kind = "timestamps"
    /\ raw_values = None
    /\ raw_values' = Some([j \in 1..Len(sample_bytes) |-> i32_from_le_bytes(sample_bytes[j])])
    /\ UNCHANGED <<sig_kind, sample_bytes, stim_step_size, dig_channels, sig_out,
                   sig_header, block_idx, notSigVars>>

\* the start of process_data: timestamps: raw_data.timestamps.clone() and
\* check_timestamps(&data.timestamps), in a build with or without overflow checks
CheckTimestamps ==
    /\ sig_kind = "timestamps"
    /\ IsSome(raw_values) /\ sig_out = None
    /\ \E overflow_checks \in BOOLEAN :
          LET timestamps == Unwrap(raw_values)
              r == check_timestamps(timestamps, overflow_checks)
          IN  sig_out' = Some(IF r.tag = "Panic" THEN Panic
                              ELSE Ok([timestamps |-> timestamps, num_gaps |-> r.val]))
    /\ UNCHANGED <<sig_kind, sample_bytes, raw_values, stim_step_size, dig_channels,
                   sig_header, block_idx, notSigVars>>

\* read_one_data_block on a block that holds one channel of every kind
ReadSignals ==
    /\ sig_kind = "process"
    /\ raw_values = None
    /\ raw_values' = Some(read_signals(sample_bytes))
    /\ UNCHANGED <<sig_kind, sample_bytes, stim_step_size, dig_channels, sig_out,
                   sig_header, block_idx, notSigVars>>

\* process_data after check_timestamps
ProcessSignals ==
    /\ sig_kind = "process"
    /\ IsSome(raw_values) /\ sig_out = None
    /\ sig_out' = Some(process_signals(sig_header, Unwrap(raw_values), stim_step_size,
                                       dig_channels))
    /\ UNCHANGED <<sig_kind, sample_bytes, raw_values, stim_step_size, dig_channels,
                   sig_header, block_idx, notSigVars>>

\* Array2::zeros((num_channels, num_samples)) at the start of read_all_data_blocks
AllocateRaw ==
    /\ sig_kind = "layout"
    /\ raw_values = None
    /\ raw_values' = Some(zeros(sig_header.num_channels,
                                Len(sample_bytes) * SAMPLES_PER_DATA_BLOCK))
    /\ UNCHANGED <<sig_kind, sample_bytes, stim_step_size, dig_channels, sig_out,
                   sig_header, block_idx, notSigVars>>

\* one turn of the loop of read_all_data_blocks: index = i * SAMPLES_PER_DATA_BLOCK
\* and read_analog_signal_type at that index
ReadBlock ==
    /\ sig_kind = "layout"
    /\ IsSome(raw_values)
    /\ block_idx < Len(sample_bytes)
    /\ LET index == block_idx * SAMPLES_PER_DATA_BLOCK
       IN  raw_values' = Some(read_analog_signal_values(
                                  sample_bytes[block_idx + 1], Unwrap(raw_values), index,
                                  SAMPLES_PER_DATA_BLOCK, sig_header.num_channels))
    /\ block_idx' = block_idx + 1
    /\ UNCHANGED <<sig_kind, sample_bytes, stim_step_size, dig_channels, sig_out,
                   sig_header, notSigVars>>

\* read_analog_signal_type on the words of one channel
ReadAnalogSignalType ==
    /\ sig_kind \in {"amplifier", "stim"}
    /\ raw_values = None
    /\ raw_values' = Some([j \in 1..Len(sample_bytes) |-> i16_from_le_bytes(sample_bytes[j])])
    /\ UNCHANGED <<sig_kind, sample_bytes, stim_step_size, dig_channels, sig_out,
                   sig_header, block_idx, notSigVars>>

\* read_digital_signal_type: the shared word of each sample
ReadDigitalSignalType ==
    /\ sig_kind = "digital"
    /\ raw_values = None
    /\ raw_values' = Some([j \in 1..Len(sample_bytes) |-> u16_from_le_bytes(sample_bytes[j])])
    /\ UNCHANGED <<sig_kind, sample_bytes, stim_step_size, dig_channels, sig_out,
                   sig_header, block_idx, notSigVars>>

\* scale_amplifier_data
ScaleAmplifierData ==
    /\ sig_kind = "amplifier"
    /\ IsSome(raw_values) /\ sig_out = None
    /\ sig_out' = Some([j \in 1..Len(Unwrap(raw_values)) |->
                          scale_amplifier_value(Unwrap(raw_values)[j])])
    /\ UNCHANGED <<sig_kind, sample_bytes, raw_values, stim_step_size, dig_channels,
                   sig_header, block_idx, notSigVars>>

\* extract_stim_data
ExtractStimData ==
    /\ sig_kind = "stim"
    /\ IsSome(raw_values) /\ sig_out = None
    /\ sig_out' = Some([j \in 1..Len(Unwrap(raw_values)) |->
                          extract_stim_value(Unwrap(raw_values)[j], stim_step_size)])
    /\ UNCHANGED <<sig_kind, sample_bytes, raw_values, stim_step_size, dig_channels,
                   sig_header, block_idx, notSigVars>>

\* extract_digital_data
ExtractDigitalData ==
    /\ sig_kind = "digital"
    /\ IsSome(raw_values) /\ sig_out = None
    /\ sig_out' = Some(extract_digital_values(Unwrap(raw_values), dig_channels))
    /\ UNCHANGED <<sig_kind, sample_bytes, raw_values, stim_step_size, dig_channels,
                   sig_header, block_idx, notSigVars>>

InitSignal == SigInit /\ LoadIdle /\ CombineIdle /\ DirIdle /\ ParseIdle

NextSignal ==
    \/ ReadAnalogSignalType
    \/ ReadDigitalSignalType
    \/ ScaleAmplifierData
    \/ ExtractStimData
    \/ ExtractDigitalData
    \/ ReadTimestamps
    \/ CheckTimestamps
    \/ ReadSignals
    \/ ProcessSignals
    \/ AllocateRaw
    \/ ReadBlock

SpecSignal == InitSignal /\ [][NextSignal]_vars

-----------------------------------------------------------------------------
(* Properties of load_file (specification SpecLoad) *)

\* load_file run statement by statement returns what load_file returns as one call
LoadFileAgrees == lpc = "done" => load_result = Some(load_file(file))

\* the block size as the format description gives it: 512 bytes of timestamps
\* and 256 bytes per 16-bit word column
BlockBytes(h) ==
    LET A == Len(h.amplifier_channels)
    IN  512 + 256 * A + (IF h.dc_amplifier_data_saved THEN 256 * A ELSE 0) + 256 * A
        + 256 * h.board_adc_channels + 256 * h.board_dac_channels
        + (IF h.board_dig_in_channels > 0 THEN 256 ELSE 0)
        + (IF h.board_dig_out_channels > 0 THEN 256 ELSE 0)

\* load_file returned Ok with data present
LoadedWithData ==
    /\ lpc = "done"
    /\ IsOk(Unwrap(load_result))
    /\ Unwrap(load_result).val.data_present

\* C1: a stream whose first four bytes are not the little-endian bytes of
\* 0xd69127ac is never decoded: no call on it returns a Recording, and the call
\* ends with UnrecognizedFileFormat.
C1_BadMagicRejected ==
    file.magic # GoodMagic =>
        /\ IsSome(load_result) => load_result = Some(Err("UnrecognizedFileFormat"))
        /\ lpc = "done" => IsSome(load_result)
        /\ IsNone(header) /\ IsNone(data)

\* C1 witness: a file with exactly one magic byte altered was rejected
C1_Witness ==
    /\ lpc = "done"
    /\ Cardinality({i \in 1..4 : file.magic[i] # GoodMagic[i]}) = 1
    /\ load_result = Some(Err("UnrecognizedFileFormat"))

\* C2: when the bytes after the header are not a whole number of blocks, load_file
\* ends with FileSizeError, and no data block has been read by then: no raw data
\* was allocated and the reader still stands at the end of the header.
C2_SizeErrorBeforeBlocks ==
    (/\ lpc \notin {"open", "read_header", "calculate_data_size"}
     /\ file.magic = GoodMagic
     /\ file.body_len % BlockBytes(file.header) # 0)
        => /\ lpc = "done"
           /\ load_result = Some(Err("FileSizeError"))
           /\ IsNone(raw_data)
           /\ reader_pos = file.header_len

\* C2 witness: a body of one whole block and one byte was refused
C2_Witness ==
    /\ lpc = "done"
    /\ file.body_len = BlockBytes(file.header) + 1
    /\ load_result = Some(Err("FileSizeError"))

\* C3: the block size computed for a header is 512 + 256 A [+ 256 A if DC saved]
\* + 256 A + 256 C + 256 D + [256 if I > 0] + [256 if O > 0], it is positive,
\* and headers with the same channel counts and flag (other rates, other channel
\* names) get the same size.
C3_BytesPerBlock ==
    lpc \notin {"open", "read_header", "calculate_data_size", "idle"} /\ IsSome(header)
        => /\ bytes_per_block = BlockBytes(Unwrap(header))
           /\ bytes_per_block > 0
           /\ \A r \in SampleRates,
                 names \in [1..Len(Unwrap(header).amplifier_channels) -> NativeNames] :
                    get_bytes_per_data_block(
                        [Unwrap(header) EXCEPT !.sample_rate = r,
                                               !.amplifier_channels = names]) = bytes_per_block

\* C3 witness: the size was computed for a header with amplifier channels, the DC
\* flag set and a digital input
C3_Witness ==
    /\ lpc = "done"
    /\ IsSome(header)
    /\ Len(Unwrap(header).amplifier_channels) > 0
    /\ Unwrap(header).dc_amplifier_data_saved
    /\ Unwrap(header).board_dig_in_channels > 0
    /\ bytes_per_block = 1536

\* the rows a matrix of kind k has for header h
KindChannels(h, k) ==
    CASE k = "board_adc_data" -> h.board_adc_channels
      [] k = "board_dac_data" -> h.board_dac_channels
      [] k = "board_dig_in_data" -> h.board_dig_in_channels
      [] k = "board_dig_out_data" -> h.board_dig_out_channels
      [] OTHER -> Len(h.amplifier_channels)

\* C4: after a load with data, the block count is the body length over the block
\* size, there are 128 timestamps per block, and every matrix present has one row
\* per channel of its kind (the amplifier count for the stim and flag matrices)
\* and 128 columns per block.
C4_Shapes ==
    LoadedWithData =>
        LET rhs == Unwrap(load_result).val
            d == Unwrap(rhs.data)
            blocks == file.body_len \div BlockBytes(file.header)
        IN  /\ data_size[2] = blocks
            /\ blocks >= 1
            /\ d.timestamps = blocks * 128
            /\ \A k \in MatrixKinds :
                    IsSome(d[k]) => Unwrap(d[k]) = <<KindChannels(rhs.header, k), blocks * 128>>

\* C4 witness: two blocks were loaded into a two-row digital input matrix
C4_Witness ==
    /\ LoadedWithData
    /\ data_size[2] = 2
    /\ Unwrap(Unwrap(load_result).val.data).board_dig_in_data = Some(<<2, 256>>)

\* C5: after a load with data, a matrix is present exactly when its kind has a
\* channel: the amplifier, stim and three flag matrices with an amplifier channel,
\* the DC matrix with an amplifier channel and the saved flag, the others with a
\* channel of their own.
C5_Presence ==
    LoadedWithData =>
        LET rhs == Unwrap(load_result).val
            h == rhs.header
            d == Unwrap(rhs.data)
            A == Len(h.amplifier_channels)
        IN  /\ \A k \in {"amplifier_data", "stim_data", "compliance_limit_data",
                         "charge_recovery_data", "amp_settle_data"} : IsSome(d[k]) <=> A > 0
            /\ IsSome(d.dc_amplifier_data) <=> (A > 0 /\ h.dc_amplifier_data_saved)
            /\ IsSome(d.board_adc_data) <=> h.board_adc_channels > 0
            /\ IsSome(d.board_dac_data) <=> h.board_dac_channels > 0
            /\ IsSome(d.board_dig_in_data) <=> h.board_dig_in_channels > 0
            /\ IsSome(d.board_dig_out_data) <=> h.board_dig_out_channels > 0

\* C5 witness: a load with amplifier channels and no DC data, no ADC, and a
\* digital output
C5_Witness ==
    /\ LoadedWithData
    /\ LET d == Unwrap(Unwrap(load_result).val.data)
       IN  /\ IsSome(d.amplifier_data)
           /\ IsNone(d.dc_amplifier_data)
           /\ IsNone(d.board_adc_data)
           /\ IsSome(d.board_dig_out_data)

\* load_file returned Ok
LoadedOk == lpc = "done" /\ IsSome(load_result) /\ IsOk(Unwrap(load_result))

\* C23: a file with no byte after its header loads, with the data absent and
\* the data-present flag false; in every Recording load_file returns the flag is
\* true exactly when the data is present, the sample count is the length of the
\* timestamps (128 per block read), and the sample count and the duration are
\* zero when the data is absent.
C23_FlagIffData ==
    /\ (lpc = "done" /\ file.magic = GoodMagic /\ file.body_len = 0) => LoadedOk
    /\ LoadedOk =>
           LET rhs == Unwrap(load_result).val
           IN  /\ file.body_len = 0 => (IsNone(rhs.data) /\ ~rhs.data_present)
               /\ rhs.data_present <=> IsSome(rhs.data)
               /\ IsSome(rhs.data) =>
                      /\ num_samples(rhs) = Unwrap(rhs.data).timestamps
                      /\ num_samples(rhs) = data_size[3]
                      /\ duration(rhs).num = 100 * data_size[3]
                      /\ duration(rhs).den = file.header.sample_rate
               /\ IsNone(rhs.data) => (num_samples(rhs) = 0 /\ duration(rhs).num = 0)

\* C23 witness: a file that ends with its header was loaded, without data
C23_Witness ==
    /\ LoadedOk
    /\ file.body_len = 0
    /\ Len(file.header.amplifier_channels) > 0
    /\ IsNone(Unwrap(load_result).val.data)

\* the fields of a data block in the order the format lays them out
FieldOrder ==
    <<"timestamps", "amplifier", "dc_amplifier", "stim", "board_adc", "board_dac",
      "board_dig_in", "board_dig_out">>

\* the bytes the format gives a field of a block of header h
FieldBytes(h, field) ==
    LET A == Len(h.amplifier_channels)
    IN  CASE field = "timestamps" -> 512
          [] field = "amplifier" -> 256 * A
          [] field = "dc_amplifier" -> IF h.dc_amplifier_data_saved THEN 256 * A ELSE 0
          [] field = "stim" -> 256 * A
          [] field = "board_adc" -> 256 * h.board_adc_channels
          [] field = "board_dac" -> 256 * h.board_dac_channels
          [] field = "board_dig_in" -> IF h.board_dig_in_channels > 0 THEN 256 ELSE 0
          [] field = "board_dig_out" -> IF h.board_dig_out_channels > 0 THEN 256 ELSE 0

\* C25: the reads of one data block are the fields of the format that have
\* bytes, in the format's order and each of its size, so that a block takes
\* bytes_per_block bytes; once the size check has passed and the blocks are
\* read the reader stands at the end of the file, check_end_of_file passes, and
\* the load of a file whose body is whole blocks never ends in FileSizeError or
\* in a read past the end of the file.
C25_BlockConsumesBytesPerBlock ==
    /\ (lpc \in {"check_end_of_file", "process_data", "return", "done"} /\ IsSome(raw_data)) =>
           LET h == Unwrap(header)
               reads == block_reads(Unwrap(raw_data), h)
               expected == SelectSeq(FieldOrder, LAMBDA f : FieldBytes(h, f) > 0)
           IN  /\ Len(reads) = Len(expected)
               /\ \A i \in 1..Len(reads) :
                      /\ reads[i].field = expected[i]
                      /\ reads[i].bytes = FieldBytes(h, expected[i])
               /\ read_one_data_block(Unwrap(raw_data), h) = bytes_per_block
               /\ reader_pos = file.header_len + data_size[2] * bytes_per_block
               /\ reader_pos = file_size
               /\ IsOk(check_end_of_file(file_size, reader_pos))
    /\ (lpc = "done" /\ file.magic = GoodMagic
           /\ file.body_len % BlockBytes(file.header) = 0) =>
           (IsErr(Unwrap(load_result)) =>
               Unwrap(load_result).err \notin {"FileSizeError", "IoError"})
    /\ (lpc = "done" /\ load_result = Some(Err("FileSizeError"))) =>
           (IsNone(raw_data) /\ reader_pos = file.header_len)

\* C25 witness: a block of timestamps and amplifier, DC, stimulation and digital
\* input words was read to the end of the file
C25_Witness ==
    /\ LoadedWithData
    /\ Len(file.header.amplifier_channels) = 1
    /\ file.header.dc_amplifier_data_saved
    /\ file.header.board_dig_in_channels = 1
    /\ reader_pos = file.header_len + 1536

-----------------------------------------------------------------------------
(* Properties of load_and_combine_files (specification Spec) *)

\* the source-file list of the running combined file (empty when there is none)
Sources ==
    IF IsSome(combined_file) /\ IsSome(Unwrap(combined_file).source_files)
    THEN Unwrap(Unwrap(combined_file).source_files)
    ELSE <<>>

\* C6: combining two files with identical headers and N1, N2 samples gives N1 + N2
\* samples and a source-file list of length 2. With two paths the running
\* combined file at the combine step is the first file and what the step leaves
\* is what is returned.
C6_SamplesAdd ==
    [][(/\ pc = "combine"
        /\ file_paths = 2
        /\ Unwrap(next_file).header = Unwrap(combined_file).header)
          => /\ pc' = "loop"
             /\ num_samples(Unwrap(combined_file'))
                  = num_samples(Unwrap(combined_file)) + num_samples(Unwrap(next_file))
             /\ IsSome(Unwrap(combined_file').source_files)
             /\ Len(Unwrap(Unwrap(combined_file').source_files)) = 2]_vars

\* the differences between two headers that the compatibility rule names
HeadersMismatch(h1, h2) ==
    \/ Abs(h1.sample_rate - h2.sample_rate) > 1
    \/ Len(h1.amplifier_channels) # Len(h2.amplifier_channels)
    \/ h1.board_adc_channels # h2.board_adc_channels
    \/ h1.board_dig_in_channels # h2.board_dig_in_channels
    \/ \E i \in 1..Len(h1.amplifier_channels) :
          i <= Len(h2.amplifier_channels) /\ h1.amplifier_channels[i] # h2.amplifier_channels[i]

CompatibilityErrors ==
    {Err("Other: Sample rates don't match"),
     Err("Other: Number of amplifier channels don't match"),
     Err("Other: Number of board ADC channels don't match"),
     Err("Other: Number of digital input channels don't match"),
     Err("Other: Amplifier channel names don't match")}

\* C7: when the file just loaded differs from the combined header in sample rate
\* by more than 0.01 Hz, in amplifier, ADC or digital input count, or in an
\* amplifier native name, the step after loading it ends the call with a
\* compatibility error, leaves the combined file as it was and never reaches
\* combine_data.
C7_MismatchAborts ==
    [][(/\ pc = "verify"
        /\ HeadersMismatch(Unwrap(combined_file).header, Unwrap(next_file).header))
          => /\ pc' = "done"
             /\ IsSome(result') /\ Unwrap(result') \in CompatibilityErrors
             /\ combined_file' = combined_file]_vars

\* C7 witness: a file with data whose amplifier channel is named otherwise was
\* refused and the combined file still holds the first file's samples alone
C7_Witness ==
    /\ pc = "done"
    /\ result = Some(Err("Other: Amplifier channel names don't match"))
    /\ IsSome(next_file) /\ Unwrap(next_file).data_present
    /\ Unwrap(combined_file).data_present
    /\ num_samples(Unwrap(combined_file)) = 128
    /\ Sources = <<1>>

\* C8: every matrix of a returned Recording has as many columns as there are
\* timestamps.
C8_SameSampleAxis ==
    (/\ pc = "done"
     /\ IsOk(Unwrap(result))
     /\ IsSome(Unwrap(result).val.data))
        => LET d == Unwrap(Unwrap(result).val.data)
           IN  \A k \in MatrixKinds : IsSome(d[k]) => Unwrap(d[k])[2] = d.timestamps

\* C9: a combine step of two files with data extends a matrix kind only if both
\* have it, and a kind that either lacks is absent from the combined file after
\* the step.
C9_AbsentInEitherIsAbsent ==
    [][(/\ pc = "combine"
        /\ pc' = "loop"
        /\ Unwrap(combined_file).data_present
        /\ Unwrap(next_file).data_present)
          => LET c == Unwrap(Unwrap(combined_file).data)
                 n == Unwrap(Unwrap(next_file).data)
                 after == Unwrap(Unwrap(combined_file').data)
             IN  \A k \in MatrixKinds :
                    /\ after[k] # c[k] => IsSome(c[k]) /\ IsSome(n[k])
                    /\ (IsNone(c[k]) \/ IsNone(n[k])) => IsNone(after[k])]_vars

\* C10: the paths are opened in list order, one at a time; the loop goes on to
\* the next path only when every file opened so far has been combined; a call
\* that ends in an error carries no Recording, and the file that failed is the
\* last one opened.
C10_InOrderAbort ==
    /\ opened = [k \in 1..Len(opened) |-> k]
    /\ Len(opened) <= file_paths
    /\ pc = "loop" => Sources = opened /\ idx = Len(opened) + 1
    /\ pc \in {"verify", "combine"} => opened = Append(Sources, idx)
    /\ (pc = "done" /\ IsErr(Unwrap(result)))
          => /\ DOMAIN Unwrap(result) = {"tag", "err"}
             /\ file_paths > 0 => Len(opened) = idx
             /\ idx >= 2 => Sources = [k \in 1..(idx - 1) |-> k]

\* C10 witness: the first of two files failed to load and the second was never
\* opened
C10_Witness ==
    /\ pc = "done"
    /\ file_paths = 2
    /\ result = Some(Err("FileSizeError"))
    /\ opened = <<1>>

\* C29: combining never changes the header. The combined file is made from
\* the first path, no later step changes its header, what is returned carries
\* that header, and every file loaded later is compared with it: a file whose
\* sample rate is more than 0.01 Hz from the first file's is refused, however
\* close it is to the file before it.
C29_HeaderKept ==
    [][/\ (IsNone(combined_file) /\ IsSome(combined_file')) => (pc = "start" /\ opened' = <<1>>)
       /\ IsSome(combined_file) =>
              /\ IsSome(combined_file')
              /\ Unwrap(combined_file').header = Unwrap(combined_file).header
       /\ (IsSome(result') /\ IsOk(Unwrap(result'))) =>
              Unwrap(result').val.header = Unwrap(combined_file').header
       /\ (/\ pc = "verify"
           /\ Abs(Unwrap(combined_file).header.sample_rate
                    - Unwrap(next_file).header.sample_rate) > 1)
              => /\ result' = Some(Err("Other: Sample rates don't match"))
                 /\ pc' = "done"]_vars

\* C29 witness: of three files at 30000.00, 30000.01 and 30000.02 Hz the second
\* was combined with the first and the third was refused
C29_Witness ==
    /\ pc = "done"
    /\ file_paths = 3
    /\ opened = <<1, 2, 3>>
    /\ Sources = <<1, 2>>
    /\ result = Some(Err("Other: Sample rates don't match"))
    /\ Unwrap(combined_file).header.sample_rate = 3000000
    /\ num_samples(Unwrap(combined_file)) = 256
    /\ Unwrap(next_file).header.sample_rate = 3000002

\* C30: load_and_combine_files ends with a Recording or with an error value:
\* no difference between headers that verify_header_compatibility lets pass
\* makes the concatenation panic.
C30_NoPanic ==
    pc = "done" => Unwrap(result).tag \in {"Ok", "Err"}

-----------------------------------------------------------------------------
(* Properties of load and load_directory (specification SpecDir) *)

\* the Recording that load returned, when it returned one
Loaded == dpc = "done" /\ IsOk(Unwrap(load_out))

LoadedFile == Unwrap(load_out).val

\* the names of the listing that end in a dot and "rhs" in any mix of cases,
\* with at least one byte before the dot
RhsNames ==
    {entries[i] : i \in {k \in 1..Len(entries) :
        LET n == entries[k]
            l == Len(n)
        IN  /\ l >= 5
            /\ n[l - 3] = 46
            /\ n[l - 2] \in {114, 82}
            /\ n[l - 1] \in {104, 72}
            /\ n[l] \in {115, 83}}}

\* a list is present exactly when two or more files were combined; a single
\* load_file never sets one
SourceListPresence ==
    /\ IsSome(next_file) => IsNone(Unwrap(next_file).source_files)
    /\ Loaded =>
          /\ path_kind = "file" => IsNone(LoadedFile.source_files)
          /\ path_kind = "dir" =>
                (IsSome(LoadedFile.source_files) <=> Len(rhs_files) >= 2)

\* C11 as stated: the source-file list is present only when two or more files
\* were combined, and then it holds exactly the input paths, in the order combined.
C11_SourceListIsPaths ==
    /\ SourceListPresence
    /\ (Loaded /\ IsSome(LoadedFile.source_files))
          => source_strings(LoadedFile) = Some(rhs_files)

\* C11 amended: the source-file list is present only when two or more files were
\* combined, and then it holds, one per file in the order combined, each input
\* path as a string in which every byte that is not UTF-8 is replaced by U+FFFD
\* (so the path itself when the path is UTF-8).
C11_SourceListLossy ==
    /\ SourceListPresence
    /\ (Loaded /\ IsSome(LoadedFile.source_files))
          => LET src == Unwrap(source_strings(LoadedFile))
             IN  /\ Len(src) = Len(rhs_files)
                 /\ \A i \in 1..Len(src) :
                       /\ Len(src[i]) = Len(rhs_files[i])
                       /\ \A j \in 1..Len(src[i]) :
                             src[i][j] = IF rhs_files[i][j] < 128
                                         THEN rhs_files[i][j] ELSE 65533

\* C11 witness: two files of a directory were combined, one of them under a
\* name that is not UTF-8
C11_Witness ==
    /\ Loaded
    /\ Len(rhs_files) = 2
    /\ rhs_files[2] = <<255, 46, 114, 104, 115>>
    /\ IsSome(LoadedFile.source_files)
    /\ Len(Unwrap(LoadedFile.source_files)) = 2

\* C12: every successful load of a directory returns a Recording whose
\* source-file list is present and as long as the number of matching files.
C12_DirectorySourceList ==
    (Loaded /\ path_kind = "dir")
        => /\ IsSome(LoadedFile.source_files)
           /\ Len(Unwrap(LoadedFile.source_files)) = Cardinality(RhsNames)

\* C13: load decodes a regular file as a single file, hands a directory to the
\* combiner, fails with its own message on a directory without a matching file
\* and on a path that is neither, and returns either a Recording or an error.
C13_Dispatch ==
    dpc = "done" =>
        /\ path_kind = "file" =>
              /\ load_out = Some(load_file(Unwrap(path_file)))
              /\ pc = "idle"
        /\ (path_kind = "dir" /\ RhsNames = {}) =>
              /\ load_out = Some(Err("Other: No RHS files found in directory"))
              /\ pc = "idle"
        /\ (path_kind = "dir" /\ RhsNames # {}) =>
              /\ pc = "done"
              /\ file_paths = Cardinality(RhsNames)
              /\ Len(opened) >= 1
              /\ load_out = result
        /\ path_kind = "other" =>
              /\ load_out = Some(Err("Other: Path is neither a file nor a directory"))
              /\ pc = "idle"
        /\ \/ Unwrap(load_out).tag = "Ok" /\ DOMAIN Unwrap(load_out) = {"tag", "val"}
           \/ Unwrap(load_out).tag = "Err" /\ DOMAIN Unwrap(load_out) = {"tag", "err"}

\* C13 witness: a directory that holds files, none of them with the suffix
C13_Witness ==
    /\ dpc = "done"
    /\ path_kind = "dir"
    /\ Len(entries) = 2
    /\ RhsNames = {}
    /\ load_out = Some(Err("Other: No RHS files found in directory"))

\* C14: the list handed to the combiner holds exactly the entries whose
\* extension is "rhs" in any mix of cases, each once, in ascending path order,
\* whatever order the listing came in; files are opened and recorded in that order.
C14_SortedRhsEntries ==
    (path_kind = "dir" /\ dpc \in {"combine", "done"} /\ RhsNames # {})
        => /\ {rhs_files[i] : i \in 1..Len(rhs_files)} = RhsNames
           /\ Len(rhs_files) = Cardinality(RhsNames)
           /\ \A i, j \in 1..Len(rhs_files) :
                 i < j => path_less(rhs_files[i], rhs_files[j])
           /\ opened = [k \in 1..Len(opened) |-> k]
           /\ Sources = [k \in 1..Len(Sources) |-> k]

\* C14 witness: "a.rhs", "c.txt", "B.RHS" were listed in that order and
\* "B.RHS" then "a.rhs" were combined
C14_Witness ==
    /\ Loaded
    /\ entries = <<<<97, 46, 114, 104, 115>>, <<99, 46, 116, 120, 116>>, <<66, 46, 82, 72, 83>>>>
    /\ rhs_files = <<<<66, 46, 82, 72, 83>>, <<97, 46, 114, 104, 115>>>>
    /\ Sources = <<1, 2>>

-----------------------------------------------------------------------------
(* Properties of the header's channel records and strings (specification     *)
(* SpecParse)                                                                 *)

\* the record the next call of add_channel_information reads, lying whole in
\* the stream
AtRecord ==
    /\ ppc = "channels"
    /\ rec_idx <= Len(records)
    /\ stream = EncodeChannels(records)

\* what a record says of its channel and of its spike trigger
ChannelOf(rec) ==
    [native_channel_name |-> rec.native_channel_name,
     custom_channel_name |-> rec.custom_channel_name,
     native_order |-> rec.native_order, custom_order |-> rec.custom_order,
     chip_channel |-> rec.chip_channel, board_stream |-> rec.board_stream]

TriggerOf(rec) ==
    [voltage_trigger_mode |-> rec.voltage_trigger_mode,
     voltage_threshold |-> rec.voltage_threshold,
     digital_trigger_channel |-> rec.digital_trigger_channel,
     digital_edge_polarity |-> rec.digital_edge_polarity]

\* the list a signal type code names
ListOf(t) ==
    CASE t = 0 -> "amplifier_channels"
      [] t = 3 -> "board_adc_channels"
      [] t = 4 -> "board_dac_channels"
      [] t = 5 -> "board_dig_in_channels"
      [] t = 6 -> "board_dig_out_channels"

\* C15: an enabled channel record of signal type 0, 3, 4, 5 or 6 is appended to
\* the amplifier, ADC, DAC, digital-in or digital-out list and to no other, type
\* 0 also appending its spike trigger; every other code (1, 2, unknown ones)
\* ends the parse with InvalidChannelType and no header.
C15_Dispatch ==
    [][(AtRecord /\ records[rec_idx].channel_enabled # 0)
          => LET rec == records[rec_idx]
                 t == rec.signal_type
             IN  IF t \in {0, 3, 4, 5, 6}
                 THEN /\ parse_result' = None
                      /\ parsed'[ListOf(t)] = Append(parsed[ListOf(t)], ChannelOf(rec))
                      /\ \A l \in DOMAIN parsed \ {ListOf(t), "spike_triggers"} :
                            parsed'[l] = parsed[l]
                      /\ parsed'.spike_triggers =
                            IF t = 0 THEN Append(parsed.spike_triggers, TriggerOf(rec))
                            ELSE parsed.spike_triggers
                 ELSE /\ parse_result' = Some(Err("InvalidChannelType"))
                      /\ ppc' = "done"
                      /\ parsed' = parsed]_vars

\* C15 witness: an enabled amplifier channel was listed with its spike trigger
\* and an enabled supply-voltage channel (code 2) then ended the parse
C15_Witness ==
    /\ ppc = "done"
    /\ Len(records) = 2
    /\ records[1].signal_type = 0 /\ records[1].channel_enabled # 0
    /\ records[2].signal_type = 2 /\ records[2].channel_enabled # 0
    /\ parse_result = Some(Err("InvalidChannelType"))
    /\ parsed.amplifier_channels = <<ChannelOf(records[1])>>
    /\ parsed.spike_triggers = <<TriggerOf(records[1])>>

\* C16: a channel record whose enabled flag is 0 is read to its end (the two
\* strings and 30 bytes, as for an enabled record), changes no list, and is no
\* error, whatever its signal type code.
C16_DisabledDropped ==
    [][(AtRecord /\ records[rec_idx].channel_enabled = 0)
          => LET rec == records[rec_idx]
             IN  /\ parsed' = parsed
                 /\ parse_result' = None
                 /\ ppc' = "channels"
                 /\ rec_idx' = rec_idx + 1
                 /\ stream_pos' = stream_pos + 38 + 2 * Len(rec.native_channel_name)
                                             + 2 * Len(rec.custom_channel_name)
                 /\ stream_pos' - stream_pos =
                       Len(EncodeChannel([rec EXCEPT !.channel_enabled = 1]))]_vars

\* C16 witness: two records that are not enabled, of the codes 1 and 7, were
\* read to the end of the stream and no list has an entry
C16_Witness ==
    /\ ppc = "done"
    /\ Len(records) = 2
    /\ records[1].signal_type = 1 /\ records[1].channel_enabled = 0
    /\ records[2].signal_type = 7 /\ records[2].channel_enabled = 0
    /\ records[2].native_channel_name = <<65>>
    /\ parse_result = Some(Ok(NoChannels))
    /\ stream_pos = Len(stream)
    /\ stream_pos = 78

\* the length field of a string read on its own, as a number
DeclaredLength == stream[1] + 256 * stream[2] + 65536 * (stream[3] + 256 * stream[4])

\* C17: reading a string whose declared length is not the sentinel and exceeds
\* the bytes that remain after the length field fails with StringReadError.
C17_LongStringRejected ==
    (/\ ppc = "done"
     /\ records = <<>>
     /\ SubSeq(stream, 1, 4) # <<255, 255, 255, 255>>
     /\ DeclaredLength > Len(stream) - 4)
        => parse_result = Some(Err("StringReadError"))

\* a string was read on its own
StringRead == ppc = "done" /\ records = <<>>

\* the length field of the string read is the sentinel 0xFFFFFFFF
SentinelLength == SubSeq(stream, 1, 4) = <<255, 255, 255, 255>>

\* the i-th 16-bit little-endian word after the length field
CodeUnit(i) == stream[4 + 2 * i - 1] + 256 * stream[4 + 2 * i]

\* a code unit that is half of a surrogate pair (0xD800 to 0xDFFF)
IsSurrogate(w) == w >= 55296 /\ w <= 57343

\* C26 as stated: a string with the sentinel length takes 4 bytes and is empty;
\* one with a declared length L that fits in the stream takes 4 + L bytes and
\* has L / 2 characters, one per code unit, for every L, odd ones included.
C26_ConsumesDeclaredLength ==
    StringRead =>
        IF SentinelLength
        THEN parse_result = Some(Ok([str |-> <<>>, pos |-> 4])) /\ stream_pos = 4
        ELSE DeclaredLength <= Len(stream) - 4 =>
                /\ IsOk(Unwrap(parse_result))
                /\ stream_pos = 4 + DeclaredLength
                /\ Unwrap(parse_result).val.str =
                       [i \in 1..(DeclaredLength \div 2) |-> CodeUnit(i)]

\* C26 amended: a string with the sentinel length takes 4 bytes and is empty;
\* one with a declared length L that fits in the stream is read as L / 2 code
\* units (rounded down): if one of them is a surrogate the read fails with
\* StringReadError, otherwise it takes 4 + 2 * (L / 2) bytes, which is 4 + L
\* for an even L and 4 + L - 1 for an odd one, and has L / 2 characters, one
\* per code unit.
C26_ConsumesWholeWords ==
    StringRead =>
        IF SentinelLength
        THEN parse_result = Some(Ok([str |-> <<>>, pos |-> 4])) /\ stream_pos = 4
        ELSE DeclaredLength <= Len(stream) - 4 =>
                LET n == DeclaredLength \div 2
                IN  IF \E i \in 1..n : IsSurrogate(CodeUnit(i))
                    THEN parse_result = Some(Err("StringReadError"))
                    ELSE /\ IsOk(Unwrap(parse_result))
                         /\ stream_pos = 4 + 2 * n
                         /\ stream_pos = IF DeclaredLength % 2 = 0
                                         THEN 4 + DeclaredLength
                                         ELSE 4 + DeclaredLength - 1
                         /\ Unwrap(parse_result).val.str = [i \in 1..n |-> CodeUnit(i)]

\* C26 witness: a string of declared length 3 was read as one character from
\* the 6 bytes of its length field and first word, a byte of it left unread
C26_Witness ==
    /\ StringRead
    /\ SubSeq(stream, 1, 4) = <<3, 0, 0, 0>>
    /\ Len(stream) = 8
    /\ parse_result = Some(Ok([str |-> <<65>>, pos |-> 6]))
    /\ stream_pos = 6

\* the notch filter mode read, the header's first fields all read without error
FixedFieldsRead == ppc = "header_done" /\ IsOk(Unwrap(parse_result))

\* C27 as stated: after the magic number, the version and the sample rate, the
\* bandwidth section is 9 floats and a 16-bit field (38 bytes), and the notch
\* filter mode is the 16-bit field at byte offset 50.
C27_NotchModeAtOffset50 ==
    /\ ppc = "freq_settings" => stream_pos = 12
    /\ ppc = "notch_filter" => stream_pos = 12 + 38
    /\ FixedFieldsRead =>
           /\ fixed_fields.notch_filter_frequency =
                  notch_filter_frequency_of(read_i16_le(stream, 50))
           /\ stream_pos = 52

\* C27 amended: after the magic number (4 bytes), the version (two 16-bit
\* fields) and the sample rate (a float), the bandwidth section is a 16-bit
\* field and 8 floats (34 bytes), and the notch filter mode is the 16-bit field
\* at byte offset 46.
C27_NotchModeAtOffset46 ==
    /\ ppc = "freq_settings" =>
           /\ stream_pos = 12
           /\ fixed_fields.version.major = read_i16_le(stream, 4)
           /\ fixed_fields.version.minor = read_i16_le(stream, 6)
           /\ fixed_fields.sample_rate = read_f32_le(stream, 8)
    /\ ppc = "notch_filter" =>
           /\ stream_pos = 12 + 34
           /\ fixed_fields.dsp_enabled = read_i16_le(stream, 12)
           /\ fixed_fields.actual_dsp_cutoff_frequency = read_f32_le(stream, 14)
           /\ fixed_fields.desired_upper_bandwidth = read_f32_le(stream, 42)
    /\ FixedFieldsRead =>
           /\ fixed_fields.notch_filter_frequency =
                  notch_filter_frequency_of(read_i16_le(stream, 46))
           /\ stream_pos = 48

\* C27 witness: the mode 2 at offset 46 gave the frequency 60, the 16-bit field
\* at offset 50 holding 1
C27_Witness ==
    /\ FixedFieldsRead
    /\ read_i16_le(stream, 46) = 2
    /\ read_i16_le(stream, 50) = 1
    /\ fixed_fields.notch_filter_frequency = Some(60)
    /\ fixed_fields.version.major = 3
    /\ stream_pos = 48

\* the records read so far that are enabled amplifier channels, in order
AmplifierRecordsRead ==
    SelectSeq(SubSeq(records, 1, rec_idx - 1),
              LAMBDA rec : rec.channel_enabled # 0 /\ rec.signal_type = 0)

\* C28: the spike-trigger list is always as long as the amplifier channel list,
\* and its i-th entry comes from the record of the i-th amplifier channel;
\* records of other kinds and records that are not enabled add no trigger.
C28_TriggerPerAmplifier ==
    /\ Len(parsed.spike_triggers) = Len(parsed.amplifier_channels)
    /\ Len(parsed.spike_triggers) = Len(AmplifierRecordsRead)
    /\ \A i \in 1..Len(parsed.spike_triggers) :
           /\ parsed.amplifier_channels[i] = ChannelOf(AmplifierRecordsRead[i])
           /\ parsed.spike_triggers[i] = TriggerOf(AmplifierRecordsRead[i])

\* C28 witness: two enabled amplifier channels with different names and
\* thresholds were listed
C28_Witness ==
    /\ ppc = "done"
    /\ Len(parsed.amplifier_channels) = 2
    /\ parsed.spike_triggers[1].voltage_threshold = 70
    /\ parsed.spike_triggers[2].voltage_threshold = -70
    /\ parsed.amplifier_channels[1].native_channel_name = <<>>
    /\ parsed.amplifier_channels[2].native_channel_name = <<65>>

-----------------------------------------------------------------------------
(* Properties of the values of the samples (specification SpecSignal) *)

\* the 16-bit word of sample j as an unsigned number, and one bit of it
WordOf(j) == sample_bytes[j][1] + 256 * sample_bytes[j][2]

BitOf(w, n) == (w \div (2 ^ n)) % 2

\* C18: an amplifier word of unsigned code c, stored as the signed x (c = x +
\* 65536 when x < 0, else c = x), is scaled to (c - 32768) * 0.195 microvolts:
\* 0.0 for c = 32768, 39.0 for c = 32968, negative below 32768 and not
\* negative for a word stored as a negative signed value.
C18_AmplifierScale ==
    (sig_kind = "amplifier" /\ IsSome(sig_out))
        => LET c == WordOf(1)
               x == Unwrap(raw_values)[1]
               v == Unwrap(sig_out)[1]
           IN  /\ c = (IF x < 0 THEN x + 65536 ELSE x)
               /\ x \in -32768..32767
               /\ v = (c - 32768) * 195
               /\ c = 32768 => v = 0
               /\ c = 32968 => v = 39000
               /\ c < 32768 => v < 0
               /\ x < 0 => v >= 0

\* C18 witness: the code 32968, stored as -32568, was scaled to 39.0 microvolts
C18_Witness ==
    /\ sig_kind = "amplifier"
    /\ sample_bytes = <<<<200, 128>>>>
    /\ raw_values = Some(<<-32568>>)
    /\ sig_out = Some(<<39000>>)

\* C19: a stim word w with step size s decodes to compliance_limit = bit 15,
\* charge_recovery = bit 14, amp_settle = bit 13 and the current (low 8 bits of
\* w) * (+1 if bit 8 is clear, -1 if set) * s, for every step size.
C19_StimDecode ==
    (sig_kind = "stim" /\ IsSome(sig_out))
        => LET w == WordOf(1)
               o == Unwrap(sig_out)[1]
               sign == IF BitOf(w, 8) = 0 THEN 1 ELSE -1
           IN  /\ o.compliance_limit_data = (BitOf(w, 15) = 1)
               /\ o.charge_recovery_data = (BitOf(w, 14) = 1)
               /\ o.amp_settle_data = (BitOf(w, 13) = 1)
               /\ 2 * o.stim_data = (w % 256) * sign * stim_step_size

\* C20: the output of a digital kind has one row per channel and one entry per
\* sample, each 0 or 1, and the entry of the channel of native order n at
\* sample j is 1 exactly when bit n of the unsigned word of sample j is set.
C20_DigitalBits ==
    (sig_kind = "digital" /\ IsSome(sig_out))
        => LET o == Unwrap(sig_out)
           IN  /\ DOMAIN o = 1..Len(dig_channels)
               /\ \A i \in 1..Len(dig_channels) :
                     /\ DOMAIN o[i] = 1..Len(sample_bytes)
                     /\ \A j \in 1..Len(sample_bytes) :
                           /\ o[i][j] \in {0, 1}
                           /\ o[i][j] = BitOf(WordOf(j), dig_channels[i])

\* C20 witness: the word with bit 15 alone set, read unsigned, gave 1 to the
\* channel of native order 15 and 0 to the channel of native order 0
C20_Witness ==
    /\ sig_kind = "digital"
    /\ sample_bytes = <<<<0, 128>>>>
    /\ raw_values = Some(<<32768>>)
    /\ dig_channels = <<15, 0>>
    /\ sig_out = Some(<<<<1>>, <<0>>>>)

\* the scaled amplifier values of the channels handed to process_data
ScaledAmplifier ==
    [i \in 1..1 |->
        [j \in 1..Len(sample_bytes) |->
            F64(scale_amplifier_value(Unwrap(raw_values).amplifier_data_raw[i][j]))]]

\* the header asks for the notch filter and is of a version before 3
NotchApplies ==
    /\ IsSome(sig_header.notch_filter_frequency)
    /\ Unwrap(sig_header.notch_filter_frequency) \in {50, 60}
    /\ sig_header.version.major < 3

\* C21: the amplifier matrix differs from the scaled values only if a notch
\* frequency (50 or 60) is configured and the major version is below 3; without
\* a notch frequency or from version 3 on it is the scaled values, and with one
\* it is the filter's output, whose first two samples are the scaled ones. The
\* DC, stimulation, ADC, DAC and digital matrices are the scaled or extracted
\* values whatever the header says.
C21_NotchOnlyAmplifier ==
    (sig_kind = "process" /\ IsSome(sig_out))
        => LET out == Unwrap(sig_out)
               raw == Unwrap(raw_values)
               row == raw.dc_amplifier_data_raw[1]
               cols == 1..Len(row)
           IN  /\ out.amplifier_data # ScaledAmplifier => NotchApplies
               /\ ~NotchApplies => out.amplifier_data = ScaledAmplifier
               /\ NotchApplies =>
                      /\ out.amplifier_data[1][1] = ScaledAmplifier[1][1]
                      /\ out.amplifier_data[1][2] = ScaledAmplifier[1][2]
                      /\ \A j \in cols : j > 2 =>
                             /\ out.amplifier_data[1][j].op = "notch"
                             /\ out.amplifier_data[1][j].filter =
                                    <<sig_header.sample_rate,
                                      Unwrap(sig_header.notch_filter_frequency), 10>>
               /\ out.dc_amplifier_data =
                      <<[j \in cols |-> F64(scale_dc_amplifier_value(row[j]))]>>
               /\ out.board_adc_data = <<[j \in cols |-> F64(scale_adc_value(row[j]))]>>
               /\ out.board_dac_data = <<[j \in cols |-> F64(scale_adc_value(row[j]))]>>
               /\ out.stim_data =
                      <<[j \in cols |-> extract_stim_value(row[j], stim_step_size).stim_data]>>
               /\ out.board_dig_in_data =
                      <<[j \in cols |-> BitOf(WordOf(j), dig_channels[1])]>>
               /\ out.board_dig_out_data = out.board_dig_in_data

\* C21 witness: under a header of version 3 with the notch filter at 60 Hz the
\* amplifier values 0.0, 39.0 and -6389.76 microvolts came out as scaled
C21_Witness ==
    /\ sig_kind = "process"
    /\ IsSome(sig_out)
    /\ sig_header.version.major = 3
    /\ sig_header.notch_filter_frequency = Some(60)
    /\ Unwrap(sig_out).amplifier_data = <<<<F64(0), F64(39000), F64(-6389760)>>>>

\* C21 second witness: under a header of version 2 with the notch filter at
\* 50 Hz the third amplifier value was computed by the filter
C21_WitnessFiltered ==
    /\ sig_kind = "process"
    /\ IsSome(sig_out)
    /\ sig_header.version.major = 2
    /\ sig_header.notch_filter_frequency = Some(50)
    /\ Unwrap(sig_out).amplifier_data[1][3].op = "notch"

\* C22: timestamps that are not consecutive, whatever i32 values they are,
\* never make the processing fail or abort: the timestamps of the Recording
\* are the decoded values, and the gaps are only counted for the warning.
C22_GapsOnlyWarn ==
    (sig_kind = "timestamps" /\ IsSome(sig_out))
        => /\ Unwrap(sig_out).tag = "Ok"
           /\ Unwrap(sig_out).val.timestamps =
                  [j \in 1..Len(sample_bytes) |-> i32_from_le_bytes(sample_bytes[j])]

\* the value of the word k (from 0) of a block's buffer
BufferWord(buffer, k) == i16_from_le_bytes(<<buffer[2 * k + 1], buffer[2 * k + 2]>>)

\* C24: for a signal of N channels the word s * N + ch of the block b is stored
\* at row ch, column b * 128 + s of the raw matrix: after b blocks every cell of
\* the first b * 128 columns was written once, with that word, and no other
\* cell was written.
C24_BlockLayout ==
    (sig_kind = "layout" /\ IsSome(raw_values))
        => LET raw == Unwrap(raw_values)
               N == sig_header.num_channels
               cols == Len(sample_bytes) * 128
           IN  /\ DOMAIN raw = 0..(N - 1)
               /\ \A ch \in 0..(N - 1) :
                      /\ DOMAIN raw[ch] = 0..(cols - 1)
                      /\ \A c \in 0..(cols - 1) :
                             LET b == c \div 128
                                 sample == c % 128
                             IN  IF b < block_idx
                                 THEN /\ raw[ch][c].writes = 1
                                      /\ raw[ch][c].value =
                                             BufferWord(sample_bytes[b + 1], sample * N + ch)
                                 ELSE raw[ch][c] = [value |-> 0, writes |-> 0]

\* C24 witness: two blocks of two channels were read; the word 2 * 5 + 1 of the
\* second block, of value 256 + 11 - 300, is at row 1, column 128 + 5
C24_Witness ==
    /\ sig_kind = "layout"
    /\ block_idx = 2
    /\ sig_header.num_channels = 2
    /\ IsSome(raw_values)
    /\ Unwrap(raw_values)[1][133] = [value |-> -33, writes |-> 1]
    /\ Unwrap(raw_values)[0][0] = [value |-> -300, writes |-> 1]

=============================================================================
